---- MODULE Spec2Model ----
(***************************************************************************)
(* A model of the bleed scanner: the Detector (scanner.js), the Semantic   *)
(* Enhancer (semantic-analyzer.js) and the Correlator                      *)
(* (cross-file-analyzer.js).                                               *)
(*                                                                         *)
(* Text is modelled as a sequence of lexemes.  A file's content is a       *)
(* sequence over Lexemes; a path is a record of two word sequences (dir    *)
(* and base).  Scores are exact rationals [n, d].                          *)
(***************************************************************************)
EXTENDS Integers, Sequences, FiniteSets, TLC

\* ------------------------------------------------------------------ bounds
\* longest content (in lexemes) of a file of the single-file scans
MaxLen == 4
\* most files in a scanned directory
MaxFiles == 2

\* --------------------------------------------------------------- sequences
RECURSIVE Flatten(_)
Flatten(ss) ==
    IF ss = <<>> THEN <<>> ELSE Head(ss) \o Flatten(Tail(ss))

\* s contains sub as a contiguous run (String.prototype.includes / RegExp.test)
Contains(s, sub) ==
    \E i \in 0..(Len(s) - Len(sub)) :
        \A j \in 1..Len(sub) : s[i + j] = sub[j]

StartsWith(s, prefix) ==
    /\ Len(s) >= Len(prefix)
    /\ \A j \in 1..Len(prefix) : s[j] = prefix[j]

\* String.prototype.indexOf: 0-based position of the first occurrence, -1 if none
IndexOf(content, text) ==
    IF \E i \in 1..Len(content) : content[i] = text
    THEN (CHOOSE i \in 1..Len(content) :
              /\ content[i] = text
              /\ \A j \in 1..(i - 1) : content[j] # text) - 1
    ELSE -1

\* ----------------------------------------------------------------- numbers
RECURSIVE GCD(_, _)
GCD(a, b) ==
    IF b = 0 THEN a ELSE GCD(b, a % b)

Rat(n, d) ==
    LET g == GCD(n, d) IN [n |-> n \div g, d |-> d \div g]

RatMul(a, b) ==
    Rat(a.n * b.n, a.d * b.d)

RatGeq(a, b) ==
    a.n * b.d >= b.n * a.d

RatLt(a, b) ==
    a.n * b.d < b.n * a.d

\* Math.min
RatMin(a, b) ==
    IF RatLt(b, a) THEN b ELSE a

\* ---------------------------------------------------------------- lexemes
NL == "\n"
SP == " "

\* "e" and "E" are the two spellings of one dangerous call (eval(req. and
\* EVAL(REQ.), matched case-insensitively; "x" is any other word of code;
\* "demo" is a keyword of the example heuristic.
WordLexemes == {"e", "E", "x", "demo"}
\* the lexemes that end with a word character
WordEnds == {"x", "demo"}
Lexemes == {NL, SP, "/", "*", "#"} \cup WordLexemes

\* Whole-file indicators: "override" is one instruction-override phrase,
\* "atob" one decoding call, "admin" and "root" two escalation keywords.
ThreatLexemes == {"override", "atob", "admin", "root"}

\* A fence of a fenced code block.
FENCE == "fence"

\* Import and export statements, one lexeme each, and what the regular
\* expressions of extractImports / extractExports capture from them.
ImportOf ==
    [l \in {"imp_b", "req_rel_b", "req_http", "dyn_user"} |->
        CASE l = "imp_b" -> [type |-> "es6", specifiers |-> "x", source |-> <<"b">>]
          [] l = "req_rel_b" -> [type |-> "commonjs", specifiers |-> "*",
                                 source |-> <<"./", "b">>]
          [] l = "req_http" -> [type |-> "commonjs", specifiers |-> "*",
                                source |-> <<"http">>]
          [] l = "dyn_user" -> [type |-> "dynamic", specifiers |-> "*",
                                source |-> <<"./", "user", "plugin">>]]

ExportOf ==
    [l \in {"exp_b", "exp_run", "cjs_b"} |->
        CASE l = "exp_b" -> [type |-> "es6", name |-> <<"b">>]
          [] l = "exp_run" -> [type |-> "es6", name |-> <<"run">>]
          [] l = "cjs_b" -> [type |-> "commonjs", name |-> <<" ", "b">>]]

\* What String.prototype.includes and the URL pattern find in a piece of
\* evidence: the lower-case call eval(req. holds "req.", its upper-case
\* spelling does not; "envdump" is body: JSON.stringify(process.env).
EvidenceWords(evidence) ==
    IF evidence = <<"e">> THEN {"req."}
    ELSE IF evidence = <<"envdump">> THEN {"process.env", ".env"}
    ELSE {}

\* What String.prototype.includes finds in a category name.
CategoryWords(category) ==
    IF category \in {"Backdoor", "Backdoor - Remote Code Execution"}
    THEN {"Backdoor"}
    ELSE IF category = "Credential Exfiltration" THEN {"Credential", "Exfiltration"}
    ELSE {}

\* ------------------------------------------------------------------- paths
PathWords(p) ==
    p.dir \o <<"/">> \o p.base

\* path.basename / path.dirname / path.extname
basename(p) ==
    p.base

dirname(p) ==
    p.dir

extname(p) ==
    p.base[Len(p.base)]

\* ------------------------------------------------------- pattern catalogue
\* One category read from signatures.json: name, severity and its matchers,
\* compiled with the flags 'gi'.
MALICIOUS_PATTERNS ==
    << [name |-> "Backdoor", key |-> "backdoor", severity |-> "critical",
        patterns |-> << [id |-> "sig_eval", global |-> TRUE,
                         texts |-> {"e", "E"}] >>] >>

\* The built-in patterns: none carries the g flag.
LEGACY_PATTERNS ==
    << [name |-> "Credential Exfiltration", key |-> "credential_exfiltration",
        severity |-> "critical",
        patterns |-> << [id |-> "legacy_envdump", global |-> FALSE,
                         texts |-> {"envdump"}] >>],
       [name |-> "Backdoor - Remote Code Execution",
        key |-> "backdoor_-_remote_code_execution", severity |-> "critical",
        patterns |-> << [id |-> "legacy_eval", global |-> FALSE,
                         texts |-> {"e", "E"}] >>] >>

ALL_PATTERNS ==
    MALICIOUS_PATTERNS \o LEGACY_PATTERNS

\* signatures.agenticThreatWeights: category key -> weight
threatWeights ==
    [k \in {"prompt_injection"} |-> Rat(18, 10)]

\* signatures.safePatterns
safePatterns ==
    <<"demo">>

\* -------------------------------------------------- AgenticThreatAnalyzer
analyzeContext(filePath, content) ==
    LET fileName == basename(filePath)
        dirName == dirname(filePath)
        Has(ws, w) == \E i \in 1..Len(ws) : ws[i] = w
        one == Rat(1, 1)
        s1 == IF Has(fileName, "system") \/ Has(fileName, "kernel")
              THEN RatMul(one, Rat(15, 10)) ELSE one
        s2 == IF Has(fileName, "config") \/ Has(fileName, "settings")
              THEN RatMul(s1, Rat(13, 10)) ELSE s1
        s3 == IF Has(fileName, "init") \/ Has(fileName, "startup")
                 \/ Has(fileName, "boot")
              THEN RatMul(s2, Rat(18, 10)) ELSE s2
        s4 == IF Has(dirName, "core") \/ Has(dirName, "lib")
              THEN RatMul(s3, Rat(16, 10)) ELSE s3
        s5 == IF Has(fileName, "network") \/ Has(fileName, "http")
                 \/ Has(fileName, "api")
              THEN RatMul(s4, Rat(14, 10)) ELSE s4
    IN  IF \E k \in 1..Len(safePatterns) : Contains(content, <<safePatterns[k]>>)
        THEN RatMul(s5, Rat(5, 10)) ELSE s5

\* calculateThreatScore without its cap
calculateThreatScoreUncapped(category, weight, contextScore) ==
    LET base == IF category \in DOMAIN threatWeights
                THEN RatMul(weight, threatWeights[category]) ELSE weight
    IN  RatMul(base, contextScore)

calculateThreatScore(category, weight, contextScore) ==
    LET base == IF category \in DOMAIN threatWeights
                THEN RatMul(weight, threatWeights[category]) ELSE weight
    IN  RatMin(RatMul(base, contextScore), Rat(2, 1))

\* ------------------------------------------------------------------ Scanner
adjustSeverity(baseSeverity, threatScore) ==
    IF RatGeq(threatScore, Rat(18, 10)) THEN "critical"
    ELSE IF RatGeq(threatScore, Rat(13, 10)) THEN "high"
    ELSE IF RatGeq(threatScore, Rat(8, 10)) THEN "medium"
    ELSE baseSeverity

getLineNumber(content, index) ==
    Cardinality({i \in 1..index : content[i] = NL}) + 1

\* the text of the match's line that precedes the match
CurrentLine(content, matchIndex) ==
    LET nls == {i \in 1..matchIndex : content[i] = NL}
        from == IF nls = {} THEN 1
                ELSE (CHOOSE i \in nls : \A j \in nls : j <= i) + 1
    IN  SubSeq(content, from, matchIndex)

\* String.prototype.trim, as far as startsWith can tell
Trim(s) ==
    LET ks == {i \in 1..Len(s) : s[i] # SP}
    IN  IF ks = {} THEN <<>>
        ELSE SubSeq(s, CHOOSE i \in ks : \A j \in ks : i <= j, Len(s))

\* (before.match(/<a><b>/g) || []).length
CountPairs(before, a, b) ==
    Cardinality({i \in 1..(Len(before) - 1) : before[i] = a /\ before[i + 1] = b})

isInSafeContext(content, matchIndex) ==
    LET currentLine == Trim(CurrentLine(content, matchIndex))
        before == SubSeq(content, 1, matchIndex)
    IN  \/ StartsWith(currentLine, <<"/", "/">>)
        \/ StartsWith(currentLine, <<"#">>)
        \/ StartsWith(currentLine, <<"*">>)
        \/ CountPairs(before, "/", "*") > CountPairs(before, "*", "/")

ReservedFixtureDirs ==
    { <<"test", "-", "evil">>, <<"test", "-", "malicious">>,
      <<"fixtures", "-", "evil">>, <<"fixtures", "-", "malicious">> }

\* \b(example|demo|...)\b against the content
HasExampleWord(content) ==
    \E i \in 1..Len(content) :
        /\ content[i] = "demo"
        /\ (i = 1 \/ content[i - 1] \notin WordEnds)
        /\ (i = Len(content) \/ content[i + 1] \notin WordLexemes)

\* isTestOrExample with the keyword test ahead of the reserved directories
isTestOrExampleKeywordsFirst(filePath, content) ==
    LET lowerPath == PathWords(filePath)
    IN  IF \E w \in {"test", "spec", "example", "demo", "sample", "mock"} :
               Contains(lowerPath, <<w>>) THEN TRUE
        ELSE IF \E d \in ReservedFixtureDirs : Contains(lowerPath, d) THEN FALSE
        ELSE HasExampleWord(content)

isTestOrExample(filePath, content) ==
    LET lowerPath == PathWords(filePath)
    IN  IF \E d \in ReservedFixtureDirs : Contains(lowerPath, d) THEN FALSE
        ELSE IF \E w \in {"test", "spec", "example", "demo", "sample", "mock"} :
                    Contains(lowerPath, <<w>>) THEN TRUE
        ELSE HasExampleWord(content)

\* content.match(pattern): the positions of every match for a g pattern,
\* else of the first match alone
Matches(content, pattern) ==
    LET all == SelectSeq([k \in 1..Len(content) |-> k],
                         LAMBDA k : content[k] \in pattern.texts)
    IN  IF pattern.global \/ all = <<>> THEN all ELSE <<Head(all)>>

\* The Finding of one match.  matchStart is the position at which the
\* matcher matched (kept for the properties; the code does not store it).
MatchFinding(filePath, content, category, pattern, pos) ==
    LET match == content[pos]
        index == IndexOf(content, match)
        contextScore == analyzeContext(filePath, content)
        threatScore == calculateThreatScore(category.key, Rat(5, 10), contextScore)
    IN  [severity |-> adjustSeverity(category.severity, threatScore),
         category |-> category.name,
         pattern |-> pattern.id,
         file |-> filePath,
         line |-> getLineNumber(content, index),
         evidence |-> <<match>>,
         threatScore |-> threatScore,
         contextScore |-> contextScore,
         matchStart |-> pos - 1,
         enhanced |-> FALSE,
         isTestCode |-> FALSE,
         involvesUserInput |-> FALSE,
         isExported |-> FALSE,
         hasExternalDataFlow |-> FALSE,
         semanticScore |-> Rat(0, 1),
         adjustedSeverity |-> "none",
         correlated |-> FALSE,
         correlations |-> <<>>]

\* the two "continue" tests of the match loop
Skipped(filePath, content, pos) ==
    \/ isInSafeContext(content, IndexOf(content, content[pos]))
    \/ isTestOrExample(filePath, content)

PatternFindings(filePath, content, category, pattern) ==
    LET kept == SelectSeq(Matches(content, pattern),
                          LAMBDA pos : ~Skipped(filePath, content, pos))
    IN  [k \in 1..Len(kept) |->
            MatchFinding(filePath, content, category, pattern, kept[k])]

CategoryFindings(filePath, content, category) ==
    Flatten([k \in 1..Len(category.patterns) |->
                PatternFindings(filePath, content, category, category.patterns[k])])

\* the loop over ALL_PATTERNS of scanFile
MatchLoop(filePath, content) ==
    Flatten([c \in 1..Len(ALL_PATTERNS) |->
                CategoryFindings(filePath, content, ALL_PATTERNS[c])])

Count(content, texts) ==
    Cardinality({i \in 1..Len(content) : content[i] \in texts})

escalationKeywords ==
    {"escalate", "elevate", "privilege", "admin", "root"}

\* detectMultiThreatPatterns reporting from two override phrases on
detectMultiThreatPatternsEager(content) ==
    LET overrideMatches == Count(content, {"override"})
    IN  IF overrideMatches >= 2
        THEN << [type |-> "repeated_instruction_override",
                 evidence |-> <<"Found", overrideMatches, "repeated_instruction_override">>,
                 severity |-> "critical", score |-> Rat(18, 10)] >>
        ELSE <<>>

detectMultiThreatPatterns(content) ==
    LET overrideMatches == Count(content, {"override"})
        encodingChains == Count(content, {"atob"})
        escalationCount == Cardinality({w \in escalationKeywords :
                                          Contains(content, <<w>>)})
        t1 == IF overrideMatches > 2
              THEN << [type |-> "repeated_instruction_override",
                       evidence |-> <<"Found", overrideMatches, "repeated_instruction_override">>,
                       severity |-> "critical", score |-> Rat(18, 10)] >>
              ELSE <<>>
        t2 == IF encodingChains > 3
              THEN << [type |-> "complex_encoding_chain",
                       evidence |-> <<"Found", encodingChains, "complex_encoding_chain">>,
                       severity |-> "high", score |-> Rat(15, 10)] >>
              ELSE <<>>
        t3 == IF escalationCount >= 2
              THEN << [type |-> "privilege_escalation_indicators",
                       evidence |-> <<"Found", escalationCount, "privilege_escalation_indicators">>,
                       severity |-> "critical", score |-> Rat(17, 10)] >>
              ELSE <<>>
    IN  t1 \o t2 \o t3

ThreatFinding(filePath, threat) ==
    [severity |-> threat.severity,
     category |-> "Multi-Threat Pattern",
     pattern |-> threat.type,
     file |-> filePath,
     line |-> 1,
     evidence |-> threat.evidence,
     threatScore |-> threat.score,
     contextScore |-> Rat(1, 1),
     matchStart |-> -1,
     enhanced |-> FALSE,
     isTestCode |-> FALSE,
     involvesUserInput |-> FALSE,
     isExported |-> FALSE,
     hasExternalDataFlow |-> FALSE,
     semanticScore |-> Rat(0, 1),
     adjustedSeverity |-> "none",
     correlated |-> FALSE,
     correlations |-> <<>>]

MultiThreatFindings(filePath, content) ==
    LET multiThreats == detectMultiThreatPatterns(content)
    IN  [k \in 1..Len(multiThreats) |-> ThreatFinding(filePath, multiThreats[k])]

\* content.length and stats.size: every lexeme counts one character, a
\* fence three, and pad characters of plain prose follow the lexemes
ContentLength(file) ==
    Len(file.content) + 2 * Count(file.content, {FENCE}) + file.pad

\* total length of the fenced code blocks (the lazy fence-to-fence matches)
CodeLength(content) ==
    LET fs == {i \in 1..Len(content) : content[i] = FENCE}
        Rank(i) == Cardinality({j \in fs : j <= i})
        opens == {i \in fs : Rank(i) % 2 = 1 /\ \E j \in fs : j > i}
        Close(i) == CHOOSE j \in fs : Rank(j) = Rank(i) + 1
        RECURSIVE Sum(_)
        Sum(S) == IF S = {} THEN 0
                  ELSE LET i == CHOOSE i \in S : TRUE
                       IN  (Close(i) - i + 1) + 4 + Sum(S \ {i})
    IN  Sum(opens)

\* isMostlyDocumentation with a doubled minimum length
isMostlyDocumentationLong(file) ==
    /\ ContentLength(file) > 0
    /\ CodeLength(file.content) * 10 < 2 * ContentLength(file)
    /\ ContentLength(file) > 2000

isMostlyDocumentation(file) ==
    /\ ContentLength(file) > 0
    /\ CodeLength(file.content) * 10 < 2 * ContentLength(file)
    /\ ContentLength(file) > 1000

\* ---------------------------------------------------------- SemanticAnalyzer
\* The structural summary of a parsed file (analyzeFile's "analysis") is an
\* input: names, sources and tokens are word sequences, lines are numbers,
\* endLine = 0 stands for a missing body location.
supportedExtensions ==
    {".js", ".jsx", ".ts", ".tsx", ".mjs"}

isSupportedFile(filePath) ==
    extname(filePath) \in supportedExtensions

HasWord(ws, words) ==
    \E i \in 1..Len(ws) : ws[i] \in words

InBody(fn, line) ==
    IF fn.endLine # 0 THEN line >= fn.line /\ line <= fn.endLine ELSE FALSE

\* isInTestCode as it was before the line test: any test function counts
isInTestCodeAnywhere(analysis, line) ==
    LET testFunctions ==
            SelectSeq(analysis.functions, LAMBDA fn :
                HasWord(fn.name, {"test", "spec", "it", "describe", "before", "after"}))
        testImports ==
            SelectSeq(analysis.imports, LAMBDA imp :
                HasWord(imp.source, {"jest", "mocha", "chai", "vitest", "@testing-library"}))
    IN  Len(testFunctions) > 0 \/ Len(testImports) > 0

isInTestCode(analysis, line) ==
    LET testFunctions ==
            SelectSeq(analysis.functions, LAMBDA fn :
                HasWord(fn.name, {"test", "spec", "it", "describe", "before", "after"}))
        insideTestFn ==
            \E k \in 1..Len(testFunctions) : InBody(testFunctions[k], line)
        testImports ==
            SelectSeq(analysis.imports, LAMBDA imp :
                HasWord(imp.source, {"jest", "mocha", "chai", "vitest", "@testing-library"}))
    IN  IF insideTestFn THEN TRUE ELSE Len(testImports) > 0

Abs(n) ==
    IF n < 0 THEN -n ELSE n

involvesUserInput(analysis, finding) ==
    LET userInputVars == analysis.userInputSources
        nearbyCalls == SelectSeq(analysis.calls, LAMBDA call :
                           Abs(call.line - finding.line) <= 3)
        nearbyCallNames == [k \in 1..Len(nearbyCalls) |-> nearbyCalls[k].name]
        nearbyCallArgs == Flatten([k \in 1..Len(nearbyCalls) |-> nearbyCalls[k].args])
        allNearbyTokens == nearbyCallNames \o nearbyCallArgs
    IN  IF Len(userInputVars) = 0 THEN FALSE
        ELSE \E v \in 1..Len(userInputVars) :
                \E part \in 1..Len(userInputVars[v]) :
                    \E t \in 1..Len(allNearbyTokens) :
                        Contains(allNearbyTokens[t], <<userInputVars[v][part]>>)

isInExportedFunction(analysis, line) ==
    LET holds == {k \in 1..Len(analysis.functions) : InBody(analysis.functions[k], line)}
    IN  IF holds = {} THEN FALSE
        ELSE LET containingFn ==
                     analysis.functions[CHOOSE k \in holds : \A j \in holds : k <= j]
             IN  \E x \in 1..Len(analysis.exports) :
                     \/ analysis.exports[x].name = containingFn.name
                     \/ analysis.exports[x].line = containingFn.line
                     \/ Abs(analysis.exports[x].line - containingFn.line) <= 1

hasExternalDataFlow(analysis) ==
    analysis.externalCalls > 0 \/ analysis.sensitiveOperations > 0

calculateSemanticScore(enhanced) ==
    LET s0 == enhanced.threatScore
        s1 == IF enhanced.isTestCode THEN RatMul(s0, Rat(3, 10)) ELSE s0
        s2 == IF enhanced.involvesUserInput THEN RatMul(s1, Rat(15, 10)) ELSE s1
        s3 == IF ~enhanced.isExported THEN RatMul(s2, Rat(7, 10)) ELSE s2
        s4 == IF enhanced.hasExternalDataFlow THEN RatMul(s3, Rat(13, 10)) ELSE s3
    IN  RatMin(s4, Rat(2, 1))

\* adjustSeverity with its band edges exclusive
semanticAdjustSeverityStrict(enhanced) ==
    LET score == enhanced.semanticScore
    IN  IF enhanced.isTestCode /\ RatLt(score, Rat(8, 10)) THEN "low"
        ELSE IF RatLt(Rat(15, 10), score) THEN "critical"
        ELSE IF RatLt(Rat(10, 10), score) THEN "high"
        ELSE IF RatLt(Rat(6, 10), score) THEN "medium"
        ELSE "low"

semanticAdjustSeverity(enhanced) ==
    LET score == enhanced.semanticScore
    IN  IF enhanced.isTestCode /\ RatLt(score, Rat(8, 10)) THEN "low"
        ELSE IF RatGeq(score, Rat(15, 10)) THEN "critical"
        ELSE IF RatGeq(score, Rat(10, 10)) THEN "high"
        ELSE IF RatGeq(score, Rat(6, 10)) THEN "medium"
        ELSE "low"

\* EnhanceFinding writing the adjusted severity over the severity
EnhanceFindingOverwrite(finding, analysis) ==
    LET e1 == [finding EXCEPT
                  !.enhanced = TRUE,
                  !.isTestCode = isInTestCode(analysis, finding.line),
                  !.involvesUserInput = involvesUserInput(analysis, finding),
                  !.isExported = isInExportedFunction(analysis, finding.line),
                  !.hasExternalDataFlow = hasExternalDataFlow(analysis)]
        e2 == [e1 EXCEPT !.semanticScore = calculateSemanticScore(e1)]
    IN  [e2 EXCEPT !.adjustedSeverity = semanticAdjustSeverity(e2),
                   !.severity = semanticAdjustSeverity(e2)]

EnhanceFinding(finding, analysis) ==
    LET e1 == [finding EXCEPT
                  !.enhanced = TRUE,
                  !.isTestCode = isInTestCode(analysis, finding.line),
                  !.involvesUserInput = involvesUserInput(analysis, finding),
                  !.isExported = isInExportedFunction(analysis, finding.line),
                  !.hasExternalDataFlow = hasExternalDataFlow(analysis)]
        e2 == [e1 EXCEPT !.semanticScore = calculateSemanticScore(e1)]
    IN  [e2 EXCEPT !.adjustedSeverity = semanticAdjustSeverity(e2)]

enhanceFindingsWithSemantics(fs, analysis) ==
    [k \in 1..Len(fs) |-> EnhanceFinding(fs[k], analysis)]

\* analyzeFile dropping the findings of a file it cannot analyse
analyzeFileFailClosed(file, fs) ==
    IF ~isSupportedFile(file.path) THEN fs
    ELSE IF ~file.ast.ok THEN <<>>
    ELSE IF file.ast.throws THEN <<>>
    ELSE enhanceFindingsWithSemantics(fs, file.ast)

\* analyzeFile: the findings come back unchanged for an unsupported
\* extension, for a file that does not parse and when the analysis throws
analyzeFile(file, fs) ==
    IF ~isSupportedFile(file.path) THEN fs
    ELSE IF ~file.ast.ok THEN fs
    ELSE IF file.ast.throws THEN fs
    ELSE enhanceFindingsWithSemantics(fs, file.ast)

\* ---------------------------------------------------------- CrossFileAnalyzer
\* A Map is a function whose domain is the set of its keys.
MapHas(m, k) ==
    k \in DOMAIN m

MapSet(m, k, v) ==
    [x \in (DOMAIN m) \cup {k} |-> IF x = k THEN v ELSE m[x]]

EmptyMap ==
    [x \in {} |-> <<>>]

\* .replace(/\.(js|ts|jsx|tsx)$/, '')
StripExt(ws) ==
    IF Len(ws) > 0 /\ ws[Len(ws)] \in {".js", ".ts", ".jsx", ".tsx"}
    THEN SubSeq(ws, 1, Len(ws) - 1) ELSE ws

\* the statements of one kind, in the order of their positions
Statements(content, of, types) ==
    SelectSeq([i \in 1..Len(content) |-> i], LAMBDA i :
        content[i] \in DOMAIN of /\ of[content[i]].type \in types)

extractImports(content) ==
    LET Imp(i) == [type |-> ImportOf[content[i]].type,
                   specifiers |-> ImportOf[content[i]].specifiers,
                   source |-> ImportOf[content[i]].source,
                   line |-> getLineNumber(content, i - 1)]
        es6 == Statements(content, ImportOf, {"es6"})
        cjs == Statements(content, ImportOf, {"commonjs"})
        dyn == Statements(content, ImportOf, {"dynamic"})
        order == es6 \o cjs \o dyn
    IN  [k \in 1..Len(order) |-> Imp(order[k])]

extractExports(content) ==
    LET Exp(i) == [type |-> ExportOf[content[i]].type,
                   name |-> ExportOf[content[i]].name,
                   line |-> getLineNumber(content, i - 1)]
        es6 == Statements(content, ExportOf, {"es6"})
        cjs == Statements(content, ExportOf, {"commonjs"})
        order == es6 \o cjs
    IN  [k \in 1..Len(order) |-> Exp(order[k])]

exportsMatch(imp, filePath, exportGraph) ==
    IF ~MapHas(exportGraph, filePath) THEN FALSE
    ELSE LET exports == exportGraph[filePath]
             impSource == StripExt(imp.source)
             fileName == StripExt(basename(filePath))
         IN  \E x \in 1..Len(exports) :
                 \/ exports[x].name = <<"*">>
                 \/ exports[x].name = impSource
                 \/ exports[x].name = fileName

\* one iteration of the loop of buildDependencyGraph, on files[i]
BuildFile(files, i, st) ==
    LET file == files[i]
        imports == extractImports(file.content)
        exports == extractExports(file.content)
        ig == MapSet(st.importGraph, file.path, imports)
        eg == MapSet(st.exportGraph, file.path, exports)
        found == Flatten([m \in 1..Len(imports) |->
                    Flatten([o \in 1..Len(files) |->
                        IF files[o].path # file.path
                           /\ exportsMatch(imports[m], files[o].path, eg)
                        THEN << [target |-> files[o].path, type |-> "imports",
                                 import |-> imports[m]] >>
                        ELSE <<>>])])
        old == IF MapHas(st.fileRelationships, file.path)
               THEN st.fileRelationships[file.path] ELSE <<>>
        fr == IF found = <<>> THEN st.fileRelationships
              ELSE MapSet(st.fileRelationships, file.path, old \o found)
    IN  [importGraph |-> ig, exportGraph |-> eg, fileRelationships |-> fr]

RECURSIVE BuildFrom(_, _, _)
BuildFrom(files, i, st) ==
    IF i > Len(files) THEN st
    ELSE BuildFrom(files, i + 1, BuildFile(files, i, st))

buildDependencyGraph(files, st) ==
    BuildFrom(files, 1, st)

\* the Map of groupFindingsByFile, as the sequence of its entries (a Map
\* iterates in insertion order)
groupFindingsByFile(fs) ==
    LET firsts == SelectSeq([i \in 1..Len(fs) |-> i], LAMBDA i :
                      \A j \in 1..(i - 1) : fs[j].file # fs[i].file)
    IN  [k \in 1..Len(firsts) |->
            [file |-> fs[firsts[k]].file,
             findings |-> SelectSeq(fs, LAMBDA f : f.file = fs[firsts[k]].file)]]

EvidenceHas(finding, words) ==
    EvidenceWords(finding.evidence) \cap words # {}

CategoryHas(finding, words) ==
    CategoryWords(finding.category) \cap words # {}

IsSuspiciousImport(imp) ==
    \/ imp.type = "dynamic" /\ HasWord(imp.source, {"user", "input", "data", "req"})
    \/ HasWord(imp.source, {"http", "https", "ftp", "data:text"})
    \/ HasWord(imp.source, {"/tmp/", "/temp/", "/var/tmp/"})
    \/ HasWord(imp.source, {"deadbeefdeadbeefdead"})

getImportSuspicionReason(imp) ==
    IF imp.type = "dynamic" /\ HasWord(imp.source, {"user", "input", "data"})
    THEN "Dynamic import with user input"
    ELSE IF HasWord(imp.source, {"http", "https", "ftp"})
    THEN "Import from remote URL"
    ELSE IF HasWord(imp.source, {"/tmp/", "/temp/", "/var/tmp/"})
    THEN "Import from temporary directory"
    ELSE IF HasWord(imp.source, {"deadbeefdeadbeefdead"})
    THEN "Obfuscated import source"
    ELSE "Unknown suspicious pattern"

analyzeSuspiciousImports(files, st) ==
    Flatten([i \in 1..Len(files) |->
        LET imports == IF MapHas(st.importGraph, files[i].path)
                       THEN st.importGraph[files[i].path] ELSE <<>>
            bad == SelectSeq(imports, IsSuspiciousImport)
        IN  [k \in 1..Len(bad) |->
                [file |-> files[i].path, import |-> bad[k],
                 reason |-> getImportSuspicionReason(bad[k]),
                 severity |-> "high"]]])

\* .replace(/[\d_]+$/, '') on a basename
StripSuffix(ws) ==
    LET keep == {i \in 1..Len(ws) : ws[i] \notin {"1", "2", "_"}}
    IN  IF keep = {} THEN <<>>
        ELSE SubSeq(ws, 1, CHOOSE i \in keep : \A j \in keep : j <= i)

areFilesRelated(filePaths, st) ==
    LET n == Len(filePaths)
        dirs == {dirname(filePaths[i]) : i \in 1..n}
        baseNames == [i \in 1..n |-> basename(filePaths[i])]
        uniquePatterns == {StripSuffix(baseNames[i]) : i \in 1..n}
    IN  IF n < 2 THEN FALSE
        ELSE IF \E i \in 1..n :
                    LET file1 == filePaths[i]
                        file2 == filePaths[(i % n) + 1]
                    IN  /\ MapHas(st.fileRelationships, file1)
                        /\ \E r \in 1..Len(st.fileRelationships[file1]) :
                               st.fileRelationships[file1][r].target = file2
             THEN TRUE
        ELSE IF Cardinality(dirs) = 1 /\ Cardinality(dirs) < n THEN TRUE
        ELSE IF Cardinality(uniquePatterns) < n
                /\ 2 * Cardinality(uniquePatterns) < n THEN TRUE
        ELSE FALSE

findAttackChains(findingsByFile, st) ==
    LET all == Flatten([g \in 1..Len(findingsByFile) |->
                   [k \in 1..Len(findingsByFile[g].findings) |->
                       [file |-> findingsByFile[g].file,
                        finding |-> findingsByFile[g].findings[k]]]])
        firsts == SelectSeq([i \in 1..Len(all) |-> i], LAMBDA i :
                      \A j \in 1..(i - 1) :
                          all[j].finding.category # all[i].finding.category)
        Attacks(t) == SelectSeq(all, LAMBDA a : a.finding.category = t)
        Chain(t) ==
            LET attacks == Attacks(t)
                paths == [k \in 1..Len(attacks) |-> attacks[k].file]
            IN  IF Len(attacks) >= 2 /\ areFilesRelated(paths, st)
                THEN << [type |-> t,
                         files |-> [k \in 1..Len(attacks) |->
                                       [path |-> attacks[k].file,
                                        line |-> attacks[k].finding.line]],
                         severity |-> "critical"] >>
                ELSE <<>>
    IN  Flatten([k \in 1..Len(firsts) |-> Chain(all[firsts[k]].finding.category)])

\* the host of the first URL in the evidence, "" for none
extractDestination(evidence) ==
    IF "webhook.site" \in EvidenceWords(evidence) THEN "webhook.site"
    ELSE IF "ngrok.io" \in EvidenceWords(evidence) THEN "ngrok.io"
    ELSE ""

\* the elements of s without repetition, in the order of first appearance
Distinct(s) ==
    LET firsts == SelectSeq([i \in 1..Len(s) |-> i], LAMBDA i :
                      \A j \in 1..(i - 1) : s[j] # s[i])
    IN  [k \in 1..Len(firsts) |-> s[firsts[k]]]

findExfiltrationChains(findingsByFile) ==
    LET Exf(g) == SelectSeq(findingsByFile[g].findings, LAMBDA f :
                     \/ CategoryHas(f, {"Exfiltration", "Credential"})
                     \/ EvidenceHas(f, {"fetch", "process.env"}))
        hit == SelectSeq([g \in 1..Len(findingsByFile) |-> g],
                         LAMBDA g : Len(Exf(g)) > 0)
        exfiltrationFindings ==
            [h \in 1..Len(hit) |-> [file |-> findingsByFile[hit[h]].file,
                                    findings |-> Exf(hit[h])]]
        dests == Flatten([h \in 1..Len(hit) |->
                     [k \in 1..Len(exfiltrationFindings[h].findings) |->
                         extractDestination(
                             exfiltrationFindings[h].findings[k].evidence)]])
        destinations == Distinct(SelectSeq(dests, LAMBDA d : d # ""))
    IN  IF Len(destinations) >= 2
        THEN << [type |-> "multi_destination_exfiltration",
                 files |-> [h \in 1..Len(hit) |->
                               [path |-> exfiltrationFindings[h].file,
                                count |-> Len(exfiltrationFindings[h].findings)]],
                 destinations |-> destinations,
                 severity |-> "critical"] >>
        ELSE <<>>

detectCoordinatedAttacks(findingsByFile, st) ==
    LET attackChains == findAttackChains(findingsByFile, st)
        exfiltrationChains == findExfiltrationChains(findingsByFile)
        c1 == IF Len(attackChains) > 0
              THEN << [type |-> "attack_chain", chains |-> attackChains,
                       severity |-> "critical"] >>
              ELSE <<>>
        c2 == IF Len(exfiltrationChains) > 0
              THEN << [type |-> "distributed_exfiltration",
                       chains |-> exfiltrationChains,
                       severity |-> "critical"] >>
              ELSE <<>>
    IN  c1 \o c2

\* files.find(...): the file object itself, in a sequence of at most one
findFileByImport(importSource, files) ==
    LET cleanSource == StripExt(importSource)
        hits == SelectSeq(files, LAMBDA file :
                    \/ StripExt(basename(file.path)) = cleanSource
                    \/ basename(file.path) = importSource)
    IN  IF hits = <<>> THEN <<>> ELSE <<Head(hits)>>

\* A step's file is a path for the input and output steps and the file
\* object that findFileByImport returns for a processing step. A path of
\* fewer than two steps is null, here the empty sequence.
buildDataFlowPath(startFile, userInputFindings, externalCallFindings, allFiles, st) ==
    LET imports == IF MapHas(st.importGraph, startFile)
                   THEN st.importGraph[startFile] ELSE <<>>
        processing ==
            Flatten([m \in 1..Len(imports) |->
                LET targetFile == findFileByImport(imports[m].source, allFiles)
                IN  IF targetFile = <<>> THEN <<>>
                    ELSE << [file |-> targetFile[1], type |-> "processing",
                             findings |-> <<>>, import |-> <<imports[m]>>] >>])
        output == IF Len(externalCallFindings) > 0
                  THEN << [file |-> startFile, type |-> "output",
                           findings |-> externalCallFindings, import |-> <<>>] >>
                  ELSE <<>>
        path == << [file |-> startFile, type |-> "input",
                    findings |-> userInputFindings, import |-> <<>>] >>
                \o processing \o output
    IN  IF Len(path) >= 2 THEN path ELSE <<>>

traceDataFlow(findingsByFile, files, st) ==
    Flatten([g \in 1..Len(findingsByFile) |->
        LET fileFindings == findingsByFile[g].findings
            userInputFindings == SelectSeq(fileFindings, LAMBDA f :
                EvidenceHas(f, {"req.", "request.", "user", "input"}))
            externalCallFindings == SelectSeq(fileFindings, LAMBDA f :
                EvidenceHas(f, {"fetch", "http", "axios", "webhook"}))
            path == buildDataFlowPath(findingsByFile[g].file, userInputFindings,
                                      externalCallFindings, files, st)
        IN  IF Len(userInputFindings) > 0 /\ Len(externalCallFindings) > 0
               /\ path # <<>>
            THEN <<path>> ELSE <<>>])

analyzeDataFlowChains(findingsByFile, files, st) ==
    LET dataFlowPaths == traceDataFlow(findingsByFile, files, st)
        long == SelectSeq(dataFlowPaths, LAMBDA path : Len(path) >= 3)
    IN  [k \in 1..Len(long) |->
            [type |-> "data_flow_chain", path |-> long[k], severity |-> "high"]]

extractPersistenceTechnique(evidence) ==
    LET ws == EvidenceWords(evidence)
    IN  IF ws \cap {"startup", "boot"} # {} THEN "startup_persistence"
        ELSE IF ws \cap {"install", "deploy"} # {} THEN "installation_persistence"
        ELSE IF ws \cap {"registry", "cron"} # {} THEN "system_persistence"
        ELSE IF ws \cap {"service", "daemon"} # {} THEN "service_persistence"
        ELSE "unknown_persistence"

detectPersistenceChains(findingsByFile) ==
    LET Per(g) == SelectSeq(findingsByFile[g].findings, LAMBDA f :
                     \/ CategoryHas(f, {"Persistence", "Backdoor"})
                     \/ EvidenceHas(f, {"startup", "boot", "install"}))
        hit == SelectSeq([g \in 1..Len(findingsByFile) |-> g],
                         LAMBDA g : Len(Per(g)) > 0)
    IN  IF Len(hit) >= 2
        THEN << [type |-> "multi_file_persistence",
                 strategies |-> [h \in 1..Len(hit) |->
                     [file |-> findingsByFile[hit[h]].file,
                      techniques |-> [k \in 1..Len(Per(hit[h])) |->
                          extractPersistenceTechnique(Per(hit[h])[k].evidence)]]],
                 severity |-> "critical"] >>
        ELSE <<>>

DotWords ==
    {".js", ".ts", ".jsx", ".tsx", ".mjs", ".py", ".sh", ".json", ".env"}

isConfigFile(filePath) ==
    LET ws == PathWords(filePath)
    IN  \/ \E i \in 1..(Len(ws) - 1) :
               ws[i] \in {"config", "settings"} /\ ws[i + 1] \in DotWords
        \/ HasWord(ws, {".env"})
        \/ Contains(ws, <<"/", "etc", "/">>)
        \/ ws[Len(ws)] \in {".json", ".yml", ".yaml", ".ini", ".conf"}

\* a path that is no file's: the undefined of a missing field
NoPath ==
    [dir |-> <<>>, base |-> <<>>]

\* the quoted config path in the evidence, "" for none
extractConfigTarget(evidence) ==
    IF "'app.config'" \in EvidenceWords(evidence) THEN "app.config" ELSE ""

\* the first qualifying finding of the first qualifying file, in a
\* sequence of at most one
detectConfigManipulation(findingsByFile) ==
    LET all == Flatten([g \in 1..Len(findingsByFile) |->
                   IF isConfigFile(findingsByFile[g].file) THEN <<>>
                   ELSE LET hits == SelectSeq(findingsByFile[g].findings, LAMBDA f :
                                        EvidenceHas(f, {"config", ".env", "settings"}))
                        IN  [k \in 1..Len(hits) |->
                                [type |-> "config_manipulation",
                                 sourceFile |-> findingsByFile[g].file,
                                 configFile |-> NoPath,
                                 targetConfig |-> extractConfigTarget(hits[k].evidence),
                                 findings |-> <<hits[k]>>,
                                 severity |-> "critical"]]])
    IN  IF all = <<>> THEN <<>> ELSE <<Head(all)>>

detectConfigCodeInjection(findingsByFile) ==
    LET cfg == SelectSeq(findingsByFile, LAMBDA g :
                   isConfigFile(g.file) /\ Len(g.findings) > 0)
    IN  [k \in 1..Len(cfg) |->
            [type |-> "config_file", sourceFile |-> NoPath,
             configFile |-> cfg[k].file, targetConfig |-> "",
             findings |-> cfg[k].findings, severity |-> "high"]]
        \o detectConfigManipulation(findingsByFile)

Tagged(type, records) ==
    [k \in 1..Len(records) |->
        [type |-> type, details |-> records[k], severity |-> records[k].severity]]

enhanceFindingsWithCorrelations(fs, correlations) ==
    [i \in 1..Len(fs) |->
        LET finding == fs[i]
            imps == SelectSeq(correlations.suspiciousImports, LAMBDA imp :
                        imp.file = finding.file)
            attacks == SelectSeq(correlations.coordinatedAttacks, LAMBDA attack :
                        \E c \in 1..Len(attack.chains) :
                            \E f \in 1..Len(attack.chains[c].files) :
                                attack.chains[c].files[f].path = finding.file)
            flows == SelectSeq(correlations.dataFlowChains, LAMBDA chain :
                        \E p \in 1..Len(chain.path) :
                            chain.path[p].file = finding.file)
            pers == SelectSeq(correlations.persistenceChains, LAMBDA persistence :
                        \E q \in 1..Len(persistence.strategies) :
                            persistence.strategies[q].file = finding.file)
            injs == SelectSeq(correlations.configCodeInjection, LAMBDA injection :
                        \/ injection.sourceFile = finding.file
                        \/ injection.configFile = finding.file)
        IN  [finding EXCEPT
                !.correlated = TRUE,
                !.correlations = Tagged("suspicious_import", imps)
                                 \o Tagged("coordinated_attack", attacks)
                                 \o Tagged("data_flow_chain", flows)
                                 \o Tagged("persistence_chain", pers)
                                 \o Tagged("config_code_injection", injs)]]

\* analyzeFiles on an analyzer in state st: the value it resolves to, the
\* correlation set it computed and the analyzer's state afterwards
analyzeFiles(files, fs, st) ==
    LET st2 == buildDependencyGraph(files, st)
        findingsByFile == groupFindingsByFile(fs)
        correlations ==
            [suspiciousImports |-> analyzeSuspiciousImports(files, st2),
             coordinatedAttacks |-> detectCoordinatedAttacks(findingsByFile, st2),
             dataFlowChains |-> analyzeDataFlowChains(findingsByFile, files, st2),
             persistenceChains |-> detectPersistenceChains(findingsByFile),
             configCodeInjection |-> detectConfigCodeInjection(findingsByFile)]
    IN  [result |-> enhanceFindingsWithCorrelations(fs, correlations),
         correlations |-> correlations,
         st |-> st2]

\* the dependency edges file -> target held by an analyzer
Edges(st) ==
    UNION {{<<f, st.fileRelationships[f][r].target>> :
               r \in 1..Len(st.fileRelationships[f])} :
           f \in DOMAIN st.fileRelationships}

\* the analyzer a Scanner constructs
NewAnalyzer ==
    [importGraph |-> EmptyMap, exportGraph |-> EmptyMap,
     fileRelationships |-> EmptyMap]

\* ------------------------------------------------------- Scanner, reporting
\* calculateRiskScore without the Math.min
calculateRiskScoreUncapped(fs) ==
    LET Points(f) == IF f.severity = "critical" THEN 100
                     ELSE IF f.severity = "high" THEN 50
                     ELSE IF f.severity = "medium" THEN 20
                     ELSE 0
        RECURSIVE Loop(_, _)
        Loop(k, score) == IF k > Len(fs) THEN score
                          ELSE Loop(k + 1, score + Points(fs[k]))
    IN  Loop(1, 0)

calculateRiskScore(fs) ==
    LET Points(f) == IF f.severity = "critical" THEN 100
                     ELSE IF f.severity = "high" THEN 50
                     ELSE IF f.severity = "medium" THEN 20
                     ELSE 0
        RECURSIVE Loop(_, _)
        Loop(k, score) == IF k > Len(fs) THEN score
                          ELSE Loop(k + 1, score + Points(fs[k]))
        total == Loop(1, 0)
    IN  IF total < 100 THEN total ELSE 100

\* the verdict with its lower threshold inclusive
VerdictInclusive(riskScore) ==
    IF riskScore > 80 THEN "DO NOT INSTALL"
    ELSE IF riskScore >= 40 THEN "REVIEW"
    ELSE "SAFE"

\* the verdict of outputJson
Verdict(riskScore) ==
    IF riskScore > 80 THEN "DO NOT INSTALL"
    ELSE IF riskScore > 40 THEN "REVIEW"
    ELSE "SAFE"

\* the exit status with the high count tested first
ExitStatusHighFirst(fs) ==
    LET critical == Len(SelectSeq(fs, LAMBDA f : f.severity = "critical"))
        high == Len(SelectSeq(fs, LAMBDA f : f.severity = "high"))
    IN  IF high > 0 THEN 1 ELSE IF critical > 0 THEN 2 ELSE 0

\* the status scan passes to process.exit
ExitStatus(fs) ==
    LET critical == Len(SelectSeq(fs, LAMBDA f : f.severity = "critical"))
        high == Len(SelectSeq(fs, LAMBDA f : f.severity = "high"))
    IN  IF critical > 0 THEN 2 ELSE IF high > 0 THEN 1 ELSE 0

\* Scanner.enhanceWithCrossFileCorrelations, given the array that
\* analyzeFiles resolved to: the array has neither a suspiciousImports nor
\* a coordinatedAttacks property, so both loops run over []
enhanceWithCrossFileCorrelations(finding, correlations) ==
    [finding EXCEPT !.correlations = <<>>]

\* -------------------------------------------------------------- the inputs
Path(dir, base) ==
    [dir |-> dir, base |-> base]

EmptyAnalysis ==
    [ok |-> TRUE, throws |-> FALSE, functions |-> <<>>, imports |-> <<>>, exports |-> <<>>,
     calls |-> <<>>, userInputSources |-> <<>>, externalCalls |-> 0,
     sensitiveOperations |-> 0]

\* parseCode returned null
ParseFailure ==
    [EmptyAnalysis EXCEPT !.ok = FALSE]

\* the code parses, and a step of the analysis throws
ThrowingAnalysis ==
    [EmptyAnalysis EXCEPT !.throws = TRUE]

\* export function handler(req) { eval(req.body) }
HandlerAnalysis ==
    [EmptyAnalysis EXCEPT
        !.functions = << [name |-> <<"handler">>, line |-> 1, endLine |-> 2] >>,
        !.exports = << [name |-> <<>>, line |-> 1] >>,
        !.calls = << [name |-> <<"eval">>, args |-> << <<"req">>, <<"body">> >>,
                      line |-> 1] >>,
        !.userInputSources = << <<"req", "body">> >>,
        !.sensitiveOperations = 1]

\* function testLogin() { ... } over lines 1..3, mocha imported
TestAnalysis ==
    [EmptyAnalysis EXCEPT
        !.functions = << [name |-> <<"test", "login">>, line |-> 1, endLine |-> 3] >>,
        !.imports = << [source |-> <<"mocha">>] >>]

\* export function b(u) { fetch(u) }
SinkAnalysis ==
    [EmptyAnalysis EXCEPT
        !.functions = << [name |-> <<"b">>, line |-> 1, endLine |-> 1] >>,
        !.exports = << [name |-> <<>>, line |-> 1] >>,
        !.calls = << [name |-> <<"fetch">>, args |-> << <<"u">> >>, line |-> 1] >>,
        !.externalCalls = 1]

\* const b = require('./b')
\* eval(req.body); b(req.body)
CallerAnalysis ==
    [EmptyAnalysis EXCEPT
        !.imports = << [source |-> <<"./", "b">>] >>,
        !.calls = << [name |-> <<"require">>, args |-> <<>>, line |-> 1],
                     [name |-> <<"eval">>, args |-> << <<"req">>, <<"body">> >>,
                      line |-> 2],
                     [name |-> <<"b">>, args |-> << <<"req">>, <<"body">> >>,
                      line |-> 2] >>,
        !.userInputSources = << <<"req", "body">>, <<"req", "body">> >>,
        !.sensitiveOperations = 1]

File(path, content, ast) ==
    [path |-> path, content |-> content, pad |-> 0, readable |-> TRUE, ast |-> ast]

\* the files a scanned tree is made of
PoolFiles ==
    { File(Path(<<"proj">>, <<"payload", "1", ".js">>), <<"e">>, EmptyAnalysis),
      File(Path(<<"proj">>, <<"payload", "2", ".js">>), <<"e">>, HandlerAnalysis),
      File(Path(<<"proj", "/", "lib">>, <<"b", ".js">>),
           <<"exp_b", "e", NL, "e">>, EmptyAnalysis),
      File(Path(<<"proj", "/", "lib">>, <<"init", ".js">>), <<"E">>, ParseFailure),
      File(Path(<<"proj", "/", "app">>, <<"a", ".js">>),
           <<"imp_b", NL, "e">>, TestAnalysis),
      File(Path(<<"proj", "/", "test">>, <<"a", ".js">>), <<"e">>, EmptyAnalysis),
      File(Path(<<"proj", "/", "test", "-", "evil">>, <<"wallet", ".js">>),
           <<"x", "/", "/", "e">>, EmptyAnalysis),
      File(Path(<<"proj">>, <<"enc", ".py">>),
           <<"atob", "atob", "atob", "atob">>, EmptyAnalysis),
      File(Path(<<"proj">>, <<"clean", ".js">>), <<"x">>, EmptyAnalysis),
      File(Path(<<"proj">>, <<"odd", ".js">>), <<"e", NL, "e">>, ThrowingAnalysis),
      File(Path(<<"proj", "/", "flow">>, <<"b", ".js">>), <<"exp_b", "x">>, SinkAnalysis),
      File(Path(<<"proj", "/", "flow">>, <<"caller", ".js">>),
           <<"req_rel_b", NL, "e">>, CallerAnalysis),
      [File(Path(<<"proj">>, <<"locked", ".js">>), <<"e">>, EmptyAnalysis)
          EXCEPT !.readable = FALSE],
      [File(Path(<<"proj">>, <<"bundle", ".js">>), <<"e">>, EmptyAnalysis)
          EXCEPT !.pad = 1048576],
      [File(Path(<<"proj">>, <<"notes", ".js">>), <<FENCE, "x", FENCE, "e">>,
            EmptyAnalysis)
          EXCEPT !.pad = 1001] }

\* the order of the glob patterns of scanDirectory
ExtRank(ext) ==
    CASE ext = ".js" -> 1 [] ext = ".ts" -> 2 [] ext = ".jsx" -> 3
      [] ext = ".tsx" -> 4 [] ext = ".py" -> 5 [] OTHER -> 6

\* what glob can list: at most MaxFiles files of distinct paths, grouped
\* by extension in the order of the patterns
Listings(pool) ==
    {l \in UNION {[1..n -> pool] : n \in 0..MaxFiles} :
        /\ \A a, b \in 1..Len(l) : a # b => l[a].path # l[b].path
        /\ \A a, b \in 1..Len(l) :
               a < b => ExtRank(extname(l[a].path)) <= ExtRank(extname(l[b].path))}

Options ==
    [output : {"json", "markdown", "text"},
     quiet : BOOLEAN,
     enableSemanticAnalysis : BOOLEAN,
     enableCrossFileAnalysis : BOOLEAN]

NoReport ==
    [format |-> "none", riskScore |-> -1, verdict |-> ""]

\* ------------------------------------------------------------------- state
VARIABLES
    pc,                     \* where the run is
    target,                 \* the scan target: kind and the files under it
    options,                \* this.options and the output option of scan
    files,                  \* scanDirectory's files
    fileContents,           \* scanDirectory's fileContents
    i,                      \* the index of the file being scanned
    findings,               \* this.findings
    filesScanned,           \* this.filesScanned
    enhancedFindings,       \* scanFile's enhancedFindings across its await
    crossFileCorrelations,  \* scanDirectory's crossFileCorrelations
    crossFileAnalyzer,      \* this.crossFileAnalyzer's three Maps
    events,                 \* history: the stage steps taken, in order
    runs,                   \* history: what each analyzeFiles call computed
    report,                 \* what was reported
    exitCode                \* process.exit's status, -1 before

vars ==
    <<pc, target, options, files, fileContents, i, findings, filesScanned,
      enhancedFindings, crossFileCorrelations, crossFileAnalyzer, events, runs,
      report, exitCode>>

InitRun ==
    /\ i = 1
    /\ filesScanned = 0
    /\ enhancedFindings = <<>>
    /\ crossFileCorrelations = <<>>
    /\ crossFileAnalyzer = NewAnalyzer
    /\ events = <<>>
    /\ runs = <<>>
    /\ report = NoReport
    /\ exitCode = -1

Init ==
    /\ InitRun
    /\ pc = "start"
    /\ files = <<>>
    /\ fileContents = <<>>
    /\ findings = <<>>
    /\ options \in Options
    /\ target \in [kind : {"dir"}, files : Listings(PoolFiles)]
                  \cup [kind : {"file"}, files : {<<f>> : f \in PoolFiles}]
                  \cup {[kind |-> "missing", files |-> <<>>]}

\* ------------------------------------------------------------------ actions
\* the size ceiling of scanFile, in bytes
MaxFileSize == 1048576

Event(op, file, n) ==
    [op |-> op, file |-> file, n |-> n]

\* scan, after the confirmation: the branch on the kind of target
ScanTarget ==
    IF target.kind = "dir"
    THEN /\ pc' = "scanDirectory"
         /\ files' = files
    ELSE /\ pc' = "scanFile"
         /\ files' = target.files

\* scan going on after finding that the path does not exist
ScanStartNoAbort ==
    /\ pc = "start"
    /\ IF target.kind = "missing"
       THEN /\ pc' = "report"
            /\ files' = files
       ELSE IF options.quiet
       THEN ScanTarget
       ELSE /\ pc' = "confirm"
            /\ files' = files
    /\ UNCHANGED <<target, options, fileContents, i, findings, filesScanned,
                   enhancedFindings, crossFileCorrelations, crossFileAnalyzer,
                   events, runs, report, exitCode>>

\* scan, up to its await of the confirmation: a missing path exits with
\* status 1; with the quiet option nothing is awaited and the scanning
\* starts in the same step
ScanStart ==
    /\ pc = "start"
    /\ IF target.kind = "missing"
       THEN /\ pc' = "exited"
            /\ exitCode' = 1
            /\ files' = files
       ELSE IF options.quiet
       THEN /\ ScanTarget
            /\ exitCode' = exitCode
       ELSE /\ pc' = "confirm"
            /\ UNCHANGED <<exitCode, files>>
    /\ UNCHANGED <<target, options, fileContents, i, findings, filesScanned,
                   enhancedFindings, crossFileCorrelations, crossFileAnalyzer,
                   events, runs, report>>

\* scan, from the answer to the confirmation on: a declined confirmation
\* returns, an accepted one starts the scanning
ScanConfirm ==
    /\ pc = "confirm"
    /\ \E confirmed \in BOOLEAN :
          IF ~confirmed
          THEN /\ pc' = "cancelled"
               /\ files' = files
          ELSE ScanTarget
    /\ UNCHANGED <<target, options, fileContents, i, findings, filesScanned,
                   enhancedFindings, crossFileCorrelations, crossFileAnalyzer,
                   events, runs, report, exitCode>>

\* scanDirectory: the glob and the reading of every file's content
ScanDirectoryRead ==
    /\ pc = "scanDirectory"
    /\ files' = target.files
    /\ fileContents' = SelectSeq(target.files, LAMBDA f : f.readable)
    /\ pc' = "analyzeFiles"
    /\ UNCHANGED <<target, options, i, findings, filesScanned, enhancedFindings,
                   crossFileCorrelations, crossFileAnalyzer, events, runs, report,
                   exitCode>>

\* what one analyzeFiles call leaves in the history
Run(fs, r) ==
    [given |-> fs, edges |-> Edges(r.st), correlations |-> r.correlations,
     result |-> r.result]

\* scanDirectory: "Perform cross-file analysis first"
ScanDirectoryCorrelate ==
    /\ pc = "analyzeFiles"
    /\ IF options.enableCrossFileAnalysis
       THEN LET r == analyzeFiles(fileContents, findings, crossFileAnalyzer)
            IN  /\ crossFileCorrelations' = r.result
                /\ crossFileAnalyzer' = r.st
                /\ runs' = Append(runs, Run(findings, r))
                /\ events' = Append(events, Event("correlate", 0, Len(findings)))
       ELSE UNCHANGED <<crossFileCorrelations, crossFileAnalyzer, runs, events>>
    /\ pc' = "scanFile"
    /\ UNCHANGED <<target, options, files, fileContents, i, findings,
                   filesScanned, enhancedFindings, report, exitCode>>

\* the return of scanFile ending the loop over the files
AfterFileEndsLoop ==
    "report"

\* where the run goes when scanFile returns
AfterFile ==
    IF target.kind = "dir" THEN "scanFile" ELSE "report"

\* the stage steps of one scanFile call, in the order scanFile takes them:
\* the match loops and the whole-file heuristics, then the Enhancer
ScanFileEvents(k, made, semantic, given) ==
    <<Event("detect", k, made)>>
    \o (IF semantic THEN <<Event("enhance", k, given)>> ELSE <<>>)

\* scanFile, up to its await of analyzeFile
ScanFileDetect ==
    /\ pc = "scanFile"
    /\ i <= Len(files)
    /\ LET file == files[i]
           filePath == file.path
           found == MatchLoop(filePath, file.content)
                    \o MultiThreatFindings(filePath, file.content)
           all == findings \o found
           fileFindings == SelectSeq(all, LAMBDA f : f.file = filePath)
       IN  IF ContentLength(file) > MaxFileSize \/ ~file.readable
           THEN /\ pc' = AfterFile
                /\ i' = i + 1
                /\ UNCHANGED <<findings, filesScanned, enhancedFindings, events>>
           ELSE IF isMostlyDocumentation(file)
           THEN /\ pc' = AfterFile
                /\ i' = i + 1
                /\ filesScanned' = filesScanned + 1
                /\ UNCHANGED <<findings, enhancedFindings, events>>
           ELSE /\ filesScanned' = filesScanned + 1
                /\ findings' = all
                /\ events' = events \o ScanFileEvents(i, Len(found),
                                  options.enableSemanticAnalysis, Len(fileFindings))
                /\ IF options.enableSemanticAnalysis
                   THEN /\ enhancedFindings' = analyzeFile(file, fileFindings)
                        /\ pc' = "replace"
                        /\ i' = i
                   ELSE /\ pc' = AfterFile
                        /\ i' = i + 1
                        /\ UNCHANGED enhancedFindings
    /\ UNCHANGED <<target, options, files, fileContents, crossFileCorrelations,
                   crossFileAnalyzer, runs, report, exitCode>>

\* the replacement putting the enhanced findings in front of the others
ScanFileReplacePrepend ==
    /\ pc = "replace"
    /\ findings' = enhancedFindings
                    \o SelectSeq(findings, LAMBDA f : f.file # files[i].path)
    /\ enhancedFindings' = <<>>
    /\ i' = i + 1
    /\ pc' = AfterFile
    /\ UNCHANGED <<target, options, files, fileContents, filesScanned,
                   crossFileCorrelations, crossFileAnalyzer, events, runs, report,
                   exitCode>>

\* scanFile, after the await: the file's findings are replaced wholesale
ScanFileReplace ==
    /\ pc = "replace"
    /\ findings' = SelectSeq(findings, LAMBDA f : f.file # files[i].path)
                    \o enhancedFindings
    /\ enhancedFindings' = <<>>
    /\ i' = i + 1
    /\ pc' = AfterFile
    /\ UNCHANGED <<target, options, files, fileContents, filesScanned,
                   crossFileCorrelations, crossFileAnalyzer, events, runs, report,
                   exitCode>>

\* scanDirectory, after its loop: "Apply cross-file correlations"
ScanDirectoryApply ==
    /\ pc = "scanFile"
    /\ target.kind = "dir"
    /\ i > Len(files)
    /\ findings' = IF options.enableCrossFileAnalysis
                      /\ Len(crossFileCorrelations) > 0
                   THEN [k \in 1..Len(findings) |->
                            enhanceWithCrossFileCorrelations(findings[k],
                                                             crossFileCorrelations)]
                   ELSE findings
    /\ pc' = "report"
    /\ UNCHANGED <<target, options, files, fileContents, i, filesScanned,
                   enhancedFindings, crossFileCorrelations, crossFileAnalyzer,
                   events, runs, report, exitCode>>

\* scan: the risk score and the output
Report ==
    /\ pc = "report"
    /\ LET riskScore == calculateRiskScore(findings)
       IN  report' = [format |-> options.output, riskScore |-> riskScore,
                      verdict |-> IF options.output = "json"
                                  THEN Verdict(riskScore) ELSE ""]
    /\ pc' = "exit"
    /\ UNCHANGED <<target, options, files, fileContents, i, findings,
                   filesScanned, enhancedFindings, crossFileCorrelations,
                   crossFileAnalyzer, events, runs, exitCode>>

\* scan: "Exit codes"
Exit ==
    /\ pc = "exit"
    /\ exitCode' = ExitStatus(findings)
    /\ pc' = "exited"
    /\ UNCHANGED <<target, options, files, fileContents, i, findings,
                   filesScanned, enhancedFindings, crossFileCorrelations,
                   crossFileAnalyzer, events, runs, report>>

Next ==
    \/ ScanStart
    \/ ScanConfirm
    \/ ScanDirectoryRead
    \/ ScanDirectoryCorrelate
    \/ ScanFileDetect
    \/ ScanFileReplace
    \/ ScanDirectoryApply
    \/ Report
    \/ Exit

Spec ==
    Init /\ [][Next]_vars

\* ------------------------------------------- the reporting of a finding list
\* the longest finding list the reporting is run on
MaxFindings == 3

Severities == {"critical", "high", "medium", "low"}

\* a matcher hit in payload1.js, reported at the given severity
FindingOf(severity) ==
    LET file == CHOOSE f \in PoolFiles : f.path = Path(<<"proj">>, <<"payload", "1", ".js">>)
        category == MALICIOUS_PATTERNS[1]
    IN  [MatchFinding(file.path, file.content, category, category.patterns[1], 1)
            EXCEPT !.severity = severity]

\* scan at the point where its scanning is over, for every list of at most
\* MaxFindings findings
InitReport ==
    /\ InitRun
    /\ options \in Options
    /\ target = [kind |-> "dir", files |-> <<>>]
    /\ files = <<>>
    /\ fileContents = <<>>
    /\ \E n \in 0..MaxFindings : \E sevs \in [1..n -> Severities] :
          /\ pc = "report"
          /\ findings = [k \in 1..n |-> FindingOf(sevs[k])]

NextReport ==
    \/ Report
    \/ Exit

SpecReport ==
    InitReport /\ [][NextReport]_vars

HasSeverity(fs, severity) ==
    \E k \in 1..Len(fs) : fs[k].severity = severity

\* C3: after a completed scan the exit status is 2 if a reported Finding is
\* critical, otherwise 1 if one is high, otherwise 0.
C3_ExitStatus ==
    pc = "exited" =>
        exitCode = IF HasSeverity(findings, "critical") THEN 2
                   ELSE IF HasSeverity(findings, "high") THEN 1
                   ELSE 0

\* a completed scan that reported a critical and a high Finding
C3_Witness ==
    /\ pc = "exited"
    /\ HasSeverity(findings, "critical")
    /\ HasSeverity(findings, "high")
    /\ exitCode = 2

Reorderings(n) ==
    {f \in [1..n -> 1..n] : \A a, b \in 1..n : f[a] = f[b] => a = b}

CountSeverity(fs, severity) ==
    Cardinality({k \in 1..Len(fs) : fs[k].severity = severity})

PointSum(fs) ==
    100 * CountSeverity(fs, "critical") + 50 * CountSeverity(fs, "high")
        + 20 * CountSeverity(fs, "medium")

\* C4: riskScore is min(100, sum of 100 per critical, 50 per high, 20 per
\* medium, 0 per low Finding); it is the same for every permutation of the
\* Finding list and lies in 0..100.
C4_RiskScore ==
    report.format # "none" =>
        /\ report.riskScore = IF PointSum(findings) < 100 THEN PointSum(findings)
                               ELSE 100
        /\ report.riskScore \in 0..100
        /\ \A f \in Reorderings(Len(findings)) :
              calculateRiskScore([k \in 1..Len(findings) |-> findings[f[k]]])
                  = report.riskScore

\* a report of one critical and one medium Finding: the sum saturates
C4_Witness ==
    /\ report.format # "none"
    /\ CountSeverity(findings, "critical") = 1
    /\ CountSeverity(findings, "medium") = 1
    /\ Len(findings) = 2
    /\ report.riskScore = 100

VerdictOfSpec(riskScore) ==
    IF riskScore <= 40 THEN "SAFE"
    ELSE IF riskScore <= 80 THEN "REVIEW"
    ELSE "DO NOT INSTALL"

\* C5: the reported verdict is SAFE exactly when riskScore <= 40, REVIEW
\* exactly when 40 < riskScore <= 80, DO NOT INSTALL exactly when
\* riskScore > 80, for every riskScore in 0..100.
C5_Verdict ==
    /\ \A r \in 0..100 : Verdict(r) = VerdictOfSpec(r)
    /\ report.format = "json" => report.verdict = VerdictOfSpec(report.riskScore)

\* a JSON report at the boundary score 40 (two medium Findings)
C5_Witness ==
    /\ report.format = "json"
    /\ report.riskScore = 40
    /\ report.verdict = "SAFE"

\* --------------------------------------------------- the scan of one file
FileLexemes == {NL, "/", "*", "x", "e", "demo"}

FilePaths ==
    { Path(<<"proj">>, <<"payload", "1", ".js">>),
      Path(<<"proj", "/", "test", "-", "evil">>, <<"wallet", ".js">>),
      Path(<<"proj", "/", "test">>, <<"a", ".js">>) }

Contents ==
    UNION {[1..n -> FileLexemes] : n \in 0..MaxLen}

\* scan at its call of scanFile on a single-file target, for every content
\* of at most MaxLen lexemes; the parser accepts the content or does not
InitFile ==
    /\ InitRun
    /\ pc = "scanFile"
    /\ findings = <<>>
    /\ options \in [output : {"json"}, enableSemanticAnalysis : BOOLEAN,
                     enableCrossFileAnalysis : {TRUE}]
    /\ \E path \in FilePaths, content \in Contents,
          ast \in {EmptyAnalysis, ParseFailure, ThrowingAnalysis} :
          /\ target = [kind |-> "file", files |-> <<File(path, content, ast)>>]
          /\ files = target.files
          /\ fileContents = <<>>

NextFile ==
    \/ ScanFileDetect
    \/ ScanFileReplace

SpecFile ==
    InitFile /\ [][NextFile]_vars

\* the file of a single-file scan
TheFile == target.files[1]

\* the findings that a matcher hit produced
MatcherFindings ==
    {k \in 1..Len(findings) : findings[k].matchStart >= 0}

NewlinesBefore(content, start) ==
    Cardinality({k \in 1..start : content[k] = NL})

\* C6: the line of every Finding of a matcher hit is 1 plus the number of
\* newlines before the start of the very match that produced it, also when
\* the matched text occurs earlier in the file.
C6_LineOfMatch ==
    \A k \in MatcherFindings :
        findings[k].line = 1 + NewlinesBefore(TheFile.content, findings[k].matchStart)

\* the lexical region of position pos (1-based): "line" inside a
\* single-line comment, "block" inside an open block comment, else "code"
RECURSIVE Region(_, _, _, _)
Region(content, pos, k, region) ==
    IF k >= pos THEN region
    ELSE IF region = "line"
         THEN Region(content, pos, k + 1, IF content[k] = NL THEN "code" ELSE "line")
    ELSE IF region = "block"
         THEN IF k + 1 < pos /\ content[k] = "*" /\ content[k + 1] = "/"
              THEN Region(content, pos, k + 2, "code")
              ELSE Region(content, pos, k + 1, "block")
    ELSE IF k + 1 < pos /\ content[k] = "/" /\ content[k + 1] = "/"
         THEN Region(content, pos, k + 2, "line")
    ELSE IF k + 1 < pos /\ content[k] = "/" /\ content[k + 1] = "*"
         THEN Region(content, pos, k + 2, "block")
    ELSE Region(content, pos, k + 1, "code")

InComment(content, pos) ==
    Region(content, pos, 1, "code") # "code"

\* C7: a match inside a single-line comment, wherever on the line the
\* marker starts, or inside a block comment not yet closed, never produces
\* a Finding.
C7_CommentedMatch ==
    \A k \in MatcherFindings :
        ~InComment(TheFile.content, findings[k].matchStart + 1)

UnderReservedDir(filePath) ==
    \E d \in ReservedFixtureDirs : Contains(filePath.dir, d)

Detected ==
    \E k \in 1..Len(events) : events[k].op = "detect"

\* C8: for a file under a reserved malicious-fixture directory the
\* test/example heuristic discards no match, whatever keywords the path or
\* the content hold: every match outside the safe contexts is reported.
C8_ReservedFixtureDir ==
    UnderReservedDir(TheFile.path) =>
        /\ ~isTestOrExample(TheFile.path, TheFile.content)
        /\ Detected =>
              \A c \in 1..Len(ALL_PATTERNS) :
                \A p \in 1..Len(ALL_PATTERNS[c].patterns) :
                  LET pattern == ALL_PATTERNS[c].patterns[p]
                      ms == Matches(TheFile.content, pattern)
                  IN  \A m \in 1..Len(ms) :
                        isInSafeContext(TheFile.content,
                            IndexOf(TheFile.content, TheFile.content[ms[m]]))
                        \/ \E k \in MatcherFindings :
                              /\ findings[k].pattern = pattern.id
                              /\ findings[k].matchStart = ms[m] - 1

\* a file under test-evil whose content holds an example keyword, with its
\* match reported
C8_Witness ==
    /\ UnderReservedDir(TheFile.path)
    /\ Contains(PathWords(TheFile.path), <<"test">>)
    /\ HasExampleWord(TheFile.content)
    /\ MatcherFindings # {}

\* ------------------------------------------------------- the stage ordering
\* the scanning of the run is over
Scanned ==
    pc \in {"report", "exit", "exited"} /\ target.kind # "missing"

EventsOf(op) ==
    {k \in 1..Len(events) : events[k].op = op}

\* C1: in every run the Correlator is invoked exactly once, after every
\* file has completed detection and enhancement, and it receives the
\* complete, final Finding set.
C1_CorrelatorOnceAfterAllFiles ==
    Scanned /\ options.enableCrossFileAnalysis =>
        /\ Cardinality(EventsOf("correlate")) = 1
        /\ \A c \in EventsOf("correlate") :
              /\ \A k \in EventsOf("detect") \cup EventsOf("enhance") : k < c
              /\ events[c].n = Len(findings)

\* C2: no semantic enhancement step of any file precedes a detection step
\* of any other file.
C2_DetectAllBeforeEnhance ==
    \A a \in EventsOf("enhance") : \A b \in EventsOf("detect") :
        events[a].file # events[b].file => b < a

HasAttackChain(finding) ==
    \E c \in 1..Len(finding.correlations) :
        /\ finding.correlations[c].type = "coordinated_attack"
        /\ finding.correlations[c].details.type = "attack_chain"

IsPayload(file, n) ==
    file.path = Path(<<"proj">>, <<"payload", n, ".js">>)

\* C10: a scan of a directory holding payload1.* and payload2.*, each with
\* a Backdoor Finding and no import between them, ends with both Findings
\* carrying an attack_chain correlation.
C10_PayloadsCorrelated ==
    /\ pc = "exited"
    /\ target.kind = "dir"
    /\ Len(target.files) = 2
    /\ IsPayload(target.files[1], "1")
    /\ IsPayload(target.files[2], "2")
    /\ options.enableCrossFileAnalysis
    =>
    /\ \A n \in 1..2 : \E k \in 1..Len(findings) :
          findings[k].file = target.files[n].path /\ findings[k].category = "Backdoor"
    /\ \A k \in 1..Len(findings) :
          findings[k].category = "Backdoor" => HasAttackChain(findings[k])

\* ------------------------------------------- the Correlator, run repeatedly
\* most analyzeFiles calls on one analyzer
MaxRuns == 2

\* what scanFile's match loops and heuristics report for a file
DetectedIn(file) ==
    IF ~file.readable \/ ContentLength(file) > MaxFileSize
          \/ isMostlyDocumentation(file)
    THEN <<>>
    ELSE MatchLoop(file.path, file.content)
         \o MultiThreatFindings(file.path, file.content)

\* a caller holding a new analyzer, a file list and the findings detected
\* in those files
InitCorr ==
    /\ InitRun
    /\ pc = "analyzeFiles"
    /\ options = [output |-> "json", enableSemanticAnalysis |-> FALSE,
                  enableCrossFileAnalysis |-> TRUE]
    /\ target \in [kind : {"dir"}, files : Listings(PoolFiles)]
    /\ files = target.files
    /\ fileContents = SelectSeq(target.files, LAMBDA f : f.readable)
    /\ findings = Flatten([k \in 1..Len(target.files) |-> DetectedIn(target.files[k])])

\* one analyzeFiles call on the same analyzer, file list and findings
AnalyzeFilesAgain ==
    /\ pc = "analyzeFiles"
    /\ Len(runs) < MaxRuns
    /\ LET r == analyzeFiles(fileContents, findings, crossFileAnalyzer)
       IN  /\ crossFileAnalyzer' = r.st
           /\ runs' = Append(runs, Run(findings, r))
           /\ events' = Append(events, Event("correlate", 0, Len(findings)))
    /\ UNCHANGED <<pc, target, options, files, fileContents, i, findings,
                   filesScanned, enhancedFindings, crossFileCorrelations, report,
                   exitCode>>

NextCorr ==
    AnalyzeFilesAgain

SpecCorr ==
    InitCorr /\ [][NextCorr]_vars

\* C9: a second Correlator run on the same analyzer with the same file list
\* and Findings yields the first run's dependency edges, chains and
\* per-finding correlation records.
C9_CorrelatorIdempotent ==
    \A a, b \in 1..Len(runs) :
        /\ runs[a].edges = runs[b].edges
        /\ runs[a].correlations = runs[b].correlations
        /\ runs[a].result = runs[b].result

\* -------------------------------------------------- data flow across files
FlowSink == Path(<<"proj", "/", "flow">>, <<"b", ".js">>)
FlowCaller == Path(<<"proj", "/", "flow">>, <<"caller", ".js">>)

\* the finding carries a data_flow_chain whose path holds both files
HasDataFlowChain(finding, a, b) ==
    \E c \in 1..Len(finding.correlations) :
        /\ finding.correlations[c].type = "data_flow_chain"
        /\ LET path == finding.correlations[c].details.path
               StepFile(step) == IF step.type = "processing" THEN step.file.path
                                 ELSE step.file
           IN  /\ \E q \in 1..Len(path) : StepFile(path[q]) = a
               /\ \E q \in 1..Len(path) : StepFile(path[q]) = b

\* C11: file b.js performs a network call on its argument, caller.js
\* imports it by a relative import and calls it with a request value: the
\* Finding in caller.js ends with involvesUserInput, hasExternalDataFlow and
\* a data_flow_chain correlation whose path holds both files.
C11_DataFlowChainAcrossFiles ==
    /\ pc = "exited"
    /\ target.kind = "dir"
    /\ {target.files[k].path : k \in 1..Len(target.files)} = {FlowSink, FlowCaller}
    /\ options.enableSemanticAnalysis
    /\ options.enableCrossFileAnalysis
    =>
    /\ \E k \in 1..Len(findings) : findings[k].file = FlowCaller
    /\ \A k \in 1..Len(findings) :
          findings[k].file = FlowCaller =>
              /\ findings[k].involvesUserInput
              /\ findings[k].hasExternalDataFlow
              /\ HasDataFlowChain(findings[k], FlowSink, FlowCaller)

\* ------------------------------------------- records attached to findings
\* the elements of a sequence
ToSet(seq) ==
    {seq[k] : k \in 1..Len(seq)}

\* the records of a correlation set
CorrelationRecords(c) ==
    ToSet(Tagged("suspicious_import", c.suspiciousImports))
        \cup ToSet(Tagged("coordinated_attack", c.coordinatedAttacks))
        \cup ToSet(Tagged("data_flow_chain", c.dataFlowChains))
        \cup ToSet(Tagged("persistence_chain", c.persistenceChains))
        \cup ToSet(Tagged("config_code_injection", c.configCodeInjection))

\* the records the chain detectors emit on the findings of the finished scan
EmittedRecords ==
    CorrelationRecords(analyzeFiles(fileContents, findings, NewAnalyzer).correlations)

\* the file of a step of a data-flow path
StepPath(step) ==
    IF step.type = "processing" THEN step.file.path ELSE step.file

\* the record implicates the file
Implicates(record, file) ==
    LET d == record.details
    IN  CASE record.type = "suspicious_import" -> d.file = file
          [] record.type = "coordinated_attack" ->
                \E c \in 1..Len(d.chains) : \E f \in 1..Len(d.chains[c].files) :
                    d.chains[c].files[f].path = file
          [] record.type = "data_flow_chain" ->
                \E q \in 1..Len(d.path) : StepPath(d.path[q]) = file
          [] record.type = "persistence_chain" ->
                \E q \in 1..Len(d.strategies) : d.strategies[q].file = file
          [] OTHER -> d.sourceFile = file \/ d.configFile = file

\* C17: every correlation record a detector emits is carried, in the final
\* output, by every Finding of every file the record implicates.
C17_RecordsAttached ==
    /\ pc = "exited"
    /\ target.kind = "dir"
    /\ options.enableCrossFileAnalysis
    =>
    \A record \in EmittedRecords : \A k \in 1..Len(findings) :
        Implicates(record, findings[k].file) =>
            \E q \in 1..Len(findings[k].correlations) :
                findings[k].correlations[q] = record

\* ------------------------------------------------ the Enhancer failing open
\* the analysis of the file fails: no parse, or a throw on the way
AnalysisFails(file) ==
    ~file.ast.ok \/ file.ast.throws

\* C12: when a file cannot be parsed, or a step of the analysis throws, the
\* file's Findings after the Enhancer are the Findings it had before (same
\* count, order and field values) and the run continues.
C12_EnhancerFailsOpen ==
    [][pc = "replace" /\ AnalysisFails(files[i]) =>
          /\ findings' = findings
          /\ pc' = AfterFile
          /\ exitCode' = exitCode]_vars

\* the Enhancer has been over a file that fails to parse, and over one
\* whose analysis throws, each with Findings
C12_Witness ==
    /\ Len(files) = 2
    /\ i > 2
    /\ ~files[1].ast.ok
    /\ files[2].ast.throws
    /\ EventsOf("enhance") # {}
    /\ \A k \in 1..2 : \E f \in 1..Len(findings) : findings[f].file = files[k].path

\* ---------------------------------------------------- a missing scan target
\* C13: when the target path does not exist the run aborts with a non-zero
\* exit status before any file is read or scanned and before any report.
C13_MissingTargetAborts ==
    target.kind = "missing" =>
        /\ pc \in {"start", "exited"}
        /\ pc = "exited" => exitCode # 0
        /\ files = <<>> /\ fileContents = <<>>
        /\ filesScanned = 0 /\ findings = <<>> /\ events = <<>>
        /\ report = NoReport

\* the run on a missing target has ended
C13_Witness ==
    target.kind = "missing" /\ pc = "exited" /\ exitCode = 1

\* ------------------------------------------------------ an unreadable file
\* scanFile gets past its early returns on this file
IsScanned(file) ==
    /\ file.readable
    /\ ContentLength(file) <= MaxFileSize
    /\ ~isMostlyDocumentation(file)

\* C14: a file that cannot be read is skipped without aborting the run:
\* the Findings recorded for other files stay as they are and every later
\* candidate file is still scanned.
C14_UnreadableFileSkipped ==
    /\ [][pc = "scanFile" /\ i <= Len(files) /\ ~files[i].readable =>
             /\ findings' = findings
             /\ i' = i + 1
             /\ pc' = IF target.kind = "dir" THEN "scanFile" ELSE "report"
             /\ exitCode' = exitCode]_vars
    /\ [](Scanned =>
             \A k \in 1..Len(files) :
                 IsScanned(files[k]) =>
                     \E d \in EventsOf("detect") : events[d].file = k)

\* a directory whose first file cannot be read and whose second file was
\* scanned and has Findings
C14_Witness ==
    /\ Scanned
    /\ Len(files) = 2
    /\ ~files[1].readable
    /\ \E d \in EventsOf("detect") : events[d].file = 2 /\ events[d].n > 0

\* ------------------------------------------- the Enhancer on one finding
\* most functions in a file of the enhancement runs
MaxFns == 2

\* function declarations: a test-named and a plain name, over the line
\* ranges of a three-line file
SemFunctions ==
    {[name |-> n, line |-> r[1], endLine |-> r[2]] :
        n \in {<<"test", "login">>, <<"handler">>},
        r \in {<<1, 1>>, <<1, 2>>, <<2, 3>>, <<3, 3>>}}

SemImports ==
    { <<>>, << [source |-> <<"mocha">>] >>, << [source |-> <<"lodash">>] >> }

\* the dangerous call on line 1, 2 or 3
SemContents ==
    { <<"e">>, <<"x", NL, "e">>, <<"x", NL, NL, "e">> }

SemPaths ==
    { Path(<<"proj">>, <<"payload", "1", ".js">>),
      Path(<<"proj", "/", "lib">>, <<"init", ".js">>) }

\* scan at its call of scanFile on one file, semantic analysis enabled, for
\* every structure of at most MaxFns functions
InitSem ==
    /\ InitRun
    /\ pc = "scanFile"
    /\ findings = <<>>
    /\ fileContents = <<>>
    /\ options = [output |-> "json", enableSemanticAnalysis |-> TRUE,
                  enableCrossFileAnalysis |-> TRUE]
    /\ \E path \in SemPaths, content \in SemContents, imports \in SemImports,
          functions \in UNION {[1..n -> SemFunctions] : n \in 0..MaxFns},
          exported \in BOOLEAN, calls \in BOOLEAN, sensitive \in BOOLEAN :
          LET ast == [EmptyAnalysis EXCEPT
                         !.functions = functions,
                         !.imports = imports,
                         !.exports = IF exported /\ functions # <<>>
                                     THEN << [name |-> functions[1].name,
                                              line |-> functions[1].line] >>
                                     ELSE <<>>,
                         !.calls = IF calls THEN HandlerAnalysis.calls ELSE <<>>,
                         !.userInputSources =
                             IF calls THEN HandlerAnalysis.userInputSources ELSE <<>>,
                         !.sensitiveOperations = IF sensitive THEN 1 ELSE 0]
          IN  /\ target = [kind |-> "file", files |-> <<File(path, content, ast)>>]
              /\ files = target.files

SpecSem ==
    InitSem /\ [][NextFile]_vars

EnhancedFindings ==
    {k \in 1..Len(findings) : findings[k].enhanced}

TestNamed(fn) ==
    \E w \in 1..Len(fn.name) :
        fn.name[w] \in {"test", "spec", "it", "describe", "before", "after"}

TestFramework(imp) ==
    \E w \in 1..Len(imp.source) :
        imp.source[w] \in {"jest", "mocha", "chai", "vitest", "@testing-library"}

\* C15: isTestCode of an enhanced Finding is true if and only if its line
\* lies within [start line, body end line] of a test-named function or the
\* file imports a test framework; a test function elsewhere in the file
\* does not make it true.
C15_IsTestCode ==
    \A k \in EnhancedFindings :
        findings[k].isTestCode <=>
            \/ \E f \in 1..Len(TheFile.ast.functions) :
                   LET fn == TheFile.ast.functions[f]
                   IN  /\ TestNamed(fn)
                       /\ fn.line <= findings[k].line
                       /\ findings[k].line <= fn.endLine
            \/ \E m \in 1..Len(TheFile.ast.imports) :
                   TestFramework(TheFile.ast.imports[m])

\* an enhanced Finding on line 3 of a file whose test-named function ends
\* on line 2 and that imports no test framework: not test code
C15_Witness ==
    /\ \E k \in EnhancedFindings :
          findings[k].line = 3 /\ ~findings[k].isTestCode
    /\ \E f \in 1..Len(TheFile.ast.functions) :
          TestNamed(TheFile.ast.functions[f]) /\ TheFile.ast.functions[f].endLine = 2
    /\ TheFile.ast.imports = <<>>

\* the cap of calculateSemanticScore, in hundredths
MaxScoreHundredths == 200

SeverityRank(severity) ==
    CASE severity = "low" -> 0 [] severity = "medium" -> 1
      [] severity = "high" -> 2 [] severity = "critical" -> 3

\* the bands of the severity: score in hundredths
BandOf(hundredths, isTest) ==
    IF isTest /\ hundredths < 80 THEN "low"
    ELSE IF hundredths >= 150 THEN "critical"
    ELSE IF hundredths >= 100 THEN "high"
    ELSE IF hundredths >= 60 THEN "medium"
    ELSE "low"

AdjustedAt(hundredths, isTest) ==
    semanticAdjustSeverity([semanticScore |-> Rat(hundredths, 100),
                            isTestCode |-> isTest])

\* the bands hold at every hundredth of the score range
BandsHold ==
    \A h \in 0..MaxScoreHundredths : \A t \in BOOLEAN :
        AdjustedAt(h, t) = BandOf(h, t)

\* outside test code the severity never decreases as the score grows
BandsMonotonic ==
    \A h \in 0..(MaxScoreHundredths - 1) :
        SeverityRank(AdjustedAt(h, FALSE)) <= SeverityRank(AdjustedAt(h + 1, FALSE))

\* score >= hundredths / 100
AtLeast(score, hundredths) ==
    score.n * 100 >= hundredths * score.d

\* the bands of the severity, on an exact score
BandOfScore(score, isTest) ==
    IF isTest /\ ~AtLeast(score, 80) THEN "low"
    ELSE IF AtLeast(score, 150) THEN "critical"
    ELSE IF AtLeast(score, 100) THEN "high"
    ELSE IF AtLeast(score, 60) THEN "medium"
    ELSE "low"

\* C16: adjustedSeverity depends on (semanticScore, isTestCode) only: low
\* for test code below 0.8, else critical from 1.5, high from 1.0, medium
\* from 0.6, low below; without the test override it never decreases as
\* the score grows.
C16_AdjustedSeverity ==
    /\ BandsHold
    /\ BandsMonotonic
    /\ \A k \in EnhancedFindings :
          findings[k].adjustedSeverity
              = BandOfScore(findings[k].semanticScore, findings[k].isTestCode)

\* an enhanced Finding in test code whose score of 0.63 would be medium
\* and is low
C16_Witness ==
    \E k \in EnhancedFindings :
        /\ findings[k].isTestCode
        /\ RatGeq(findings[k].semanticScore, Rat(6, 10))
        /\ RatLt(findings[k].semanticScore, Rat(8, 10))
        /\ findings[k].adjustedSeverity = "low"

\* ------------------------------------------------- one finding per match
\* the positions (1-based) of every match of the pattern in the content
AllMatches(content, pattern) ==
    {pos \in 1..Len(content) : content[pos] \in pattern.texts}

\* the findings of the pattern reported at the position
FindingsAt(pattern, pos) ==
    {k \in MatcherFindings : /\ findings[k].pattern = pattern.id
                             /\ findings[k].matchStart = pos - 1}

\* C18: for every matcher, catalogue or legacy, and a file neither skipped
\* nor suppressed, there is exactly one Finding per match outside a safe
\* context, none for a match inside one, and none for anything that is not
\* a match.
C18_OneFindingPerMatch ==
    /\ Detected
    /\ IsScanned(TheFile)
    /\ ~isTestOrExample(TheFile.path, TheFile.content)
    =>
    \A c \in 1..Len(ALL_PATTERNS) : \A p \in 1..Len(ALL_PATTERNS[c].patterns) :
        LET pattern == ALL_PATTERNS[c].patterns[p]
            all == AllMatches(TheFile.content, pattern)
        IN  /\ \A pos \in all :
                  Cardinality(FindingsAt(pattern, pos))
                      = IF isInSafeContext(TheFile.content, pos - 1) THEN 0 ELSE 1
            /\ \A k \in MatcherFindings :
                  findings[k].pattern = pattern.id =>
                      findings[k].matchStart + 1 \in all

\* --------------------------------------------------------- skipped files
\* the file is over the size ceiling
IsOversized(file) ==
    ContentLength(file) > 1024 * 1024

\* the file is longer than 1000 characters and less than 20% of it is
\* fenced code
IsDocumentation(file) ==
    /\ ContentLength(file) > 1000
    /\ CodeLength(file.content) * 5 < ContentLength(file)

\* C19: a file larger than 1 MiB, or longer than 1000 characters with less
\* than 20% of fenced code, yields no Finding of any kind, per-match or
\* synthetic.
C19_SkippedFileNoFinding ==
    \A n \in 1..Len(target.files) :
        IsOversized(target.files[n]) \/ IsDocumentation(target.files[n]) =>
            \A k \in 1..Len(findings) : findings[k].file # target.files[n].path

\* a finished scan of an oversized file and a documentation file, each
\* holding a match
C19_Witness ==
    /\ pc = "exited"
    /\ \E a, b \in 1..Len(target.files) :
          /\ IsOversized(target.files[a])
          /\ IsDocumentation(target.files[b]) /\ ~IsOversized(target.files[b])
          /\ CodeLength(target.files[b].content) > 0
          /\ \A n \in {a, b} :
                /\ target.files[n].readable
                /\ Matches(target.files[n].content, ALL_PATTERNS[1].patterns[1]) # <<>>
    /\ filesScanned = 1

\* ---------------------------------------------- synthetic whole-file findings
\* the lexemes of the files of the multi-threat scans: the override phrase,
\* an encoding call, three escalation keywords, a comment marker and a match
ThreatFileLexemes == {"override", "atob", "admin", "root", "privilege", "#", "e"}

ThreatContents ==
    UNION {[1..n -> ThreatFileLexemes] : n \in 0..MaxLen}

ThreatPaths ==
    { Path(<<"proj">>, <<"payload", "1", ".js">>),
      Path(<<"proj", "/", "test">>, <<"a", ".js">>) }

InitThreat ==
    /\ InitRun
    /\ pc = "scanFile"
    /\ findings = <<>>
    /\ options \in [output : {"json"}, enableSemanticAnalysis : BOOLEAN,
                     enableCrossFileAnalysis : {TRUE}]
    /\ \E path \in ThreatPaths, content \in ThreatContents :
          /\ target = [kind |-> "file",
                       files |-> <<File(path, content, EmptyAnalysis)>>]
          /\ files = target.files
          /\ fileContents = <<>>

SpecThreat ==
    InitThreat /\ [][NextFile]_vars

\* the findings of the synthetic category
SyntheticFindings ==
    {k \in 1..Len(findings) : findings[k].category = "Multi-Threat Pattern"}

\* the occurrences of a lexeme in the file
Occurrences(w) ==
    Cardinality({pos \in 1..Len(TheFile.content) : TheFile.content[pos] = w})

\* the synthetic findings the claim lists: type, condition, severity, score
SyntheticRules ==
    { [type |-> "repeated_instruction_override",
       due |-> Occurrences("override") > 2,
       severity |-> "critical", score |-> Rat(18, 10)],
      [type |-> "complex_encoding_chain",
       due |-> Occurrences("atob") > 3,
       severity |-> "high", score |-> Rat(15, 10)],
      [type |-> "privilege_escalation_indicators",
       due |-> Cardinality({w \in {"admin", "root", "privilege"} :
                               Occurrences(w) > 0}) >= 2,
       severity |-> "critical", score |-> Rat(17, 10)] }

\* C20: for a file that is not skipped, whatever the per-match results and
\* the comment or test/example suppression, a synthetic Finding is emitted
\* exactly when the override phrase occurs more than twice (critical), an
\* encoding call more than three times (high), or two distinct escalation
\* keywords are present (critical); each is at line 1, with a fixed score
\* and the category 'Multi-Threat Pattern', which no per-match Finding has.
C20_SyntheticFindings ==
    Detected =>
        /\ \A rule \in SyntheticRules :
              LET made == {k \in SyntheticFindings : findings[k].pattern = rule.type}
              IN  /\ Cardinality(made) = IF rule.due THEN 1 ELSE 0
                  /\ \A k \in made :
                        /\ findings[k].severity = rule.severity
                        /\ findings[k].threatScore = rule.score
                        /\ findings[k].line = 1
                        /\ findings[k].file = TheFile.path
        /\ \A k \in SyntheticFindings :
              \E rule \in SyntheticRules : findings[k].pattern = rule.type
        /\ SyntheticFindings \cap MatcherFindings = {}

\* a file under a test directory whose only line is a comment holding the
\* override phrase three times: the synthetic Finding is its only Finding
C20_Witness ==
    /\ Detected
    /\ isTestOrExample(TheFile.path, TheFile.content)
    /\ TheFile.content = <<"#", "override", "override", "override">>
    /\ Len(findings) = 1
    /\ findings[1].category = "Multi-Threat Pattern"
    /\ findings[1].severity = "critical"

\* ------------------------------------------------------------ score bounds
\* paths whose names carry none, some and all of the context modifiers
ScorePaths ==
    { Path(<<"proj">>, <<"payload", "1", ".js">>),
      Path(<<"proj", "/", "lib">>, <<"init", ".js">>),
      Path(<<"proj", "/", "lib">>, <<"system", "-", "init", ".js">>),
      Path(<<"proj", "/", "core">>,
           <<"system", "-", "config", "-", "init", "-", "api", ".js">>) }

\* a match, a match beside a safe pattern, and an encoding chain
ScoreContents ==
    { <<"e">>, <<"e", NL, "demo">>, <<"atob", "atob", "atob", "atob", NL, "e">> }

InitScore ==
    /\ InitRun
    /\ pc = "scanFile"
    /\ findings = <<>>
    /\ fileContents = <<>>
    /\ options \in [output : {"json"}, enableSemanticAnalysis : BOOLEAN,
                     enableCrossFileAnalysis : {TRUE}]
    /\ \E path \in ScorePaths, content \in ScoreContents, imports \in SemImports,
          exported \in BOOLEAN, calls \in BOOLEAN, sensitive \in BOOLEAN :
          LET ast == [HandlerAnalysis EXCEPT
                         !.imports = imports,
                         !.exports = IF exported THEN HandlerAnalysis.exports
                                     ELSE <<>>,
                         !.calls = IF calls THEN HandlerAnalysis.calls ELSE <<>>,
                         !.userInputSources =
                             IF calls THEN HandlerAnalysis.userInputSources ELSE <<>>,
                         !.sensitiveOperations = IF sensitive THEN 1 ELSE 0]
          IN  /\ target = [kind |-> "file", files |-> <<File(path, content, ast)>>]
              /\ files = target.files

SpecScore ==
    InitScore /\ [][NextFile]_vars

\* the findings of the list and of the enhancer's pending result
AllFindings ==
    ToSet(findings) \cup ToSet(enhancedFindings)

\* the product of the enhancer's multipliers that apply to the finding
Multiplied(f) ==
    RatMul(RatMul(RatMul(RatMul(f.threatScore,
        IF f.isTestCode THEN Rat(3, 10) ELSE Rat(1, 1)),
        IF f.involvesUserInput THEN Rat(15, 10) ELSE Rat(1, 1)),
        IF ~f.isExported THEN Rat(7, 10) ELSE Rat(1, 1)),
        IF f.hasExternalDataFlow THEN Rat(13, 10) ELSE Rat(1, 1))

\* C21: at every stage every Finding has contextScore >= 0 and threatScore
\* <= 2.0, a per-match Finding's threatScore being 0.5 x category weight x
\* contextScore capped at 2.0 and a synthetic one's its fixed score; after
\* the Enhancer semanticScore is threatScore times the multipliers that
\* apply, capped at 2.0.
C21_ScoreBounds ==
    \A f \in AllFindings :
        /\ RatGeq(f.contextScore, Rat(0, 1))
        /\ ~RatLt(Rat(2, 1), f.threatScore)
        /\ ~RatLt(Rat(2, 1), f.semanticScore)
        /\ f.matchStart >= 0 =>
              LET product == RatMul(Rat(5, 10), f.contextScore)
              IN  f.threatScore = IF RatLt(Rat(2, 1), product) THEN Rat(2, 1)
                                  ELSE product
        /\ f.matchStart < 0 => f.threatScore \in {Rat(18, 10), Rat(15, 10), Rat(17, 10)}
        /\ f.enhanced =>
              f.semanticScore = IF RatLt(Rat(2, 1), Multiplied(f)) THEN Rat(2, 1)
                                ELSE Multiplied(f)

\* an enhanced per-match Finding whose threat score and semantic score both
\* met the cap, the uncapped products being larger
C21_Witness ==
    \E k \in EnhancedFindings :
        /\ findings[k].matchStart >= 0
        /\ RatLt(Rat(2, 1), RatMul(Rat(5, 10), findings[k].contextScore))
        /\ findings[k].threatScore = Rat(2, 1)
        /\ RatLt(Rat(2, 1), Multiplied(findings[k]))
        /\ findings[k].semanticScore = Rat(2, 1)

\* ------------------------------------------------- the wholesale replacement
\* the identity of a finding
Identity(f) ==
    <<f.file, f.line, f.category, f.pattern>>

\* C22: replacing a file's Findings by their enhanced versions leaves the
\* Finding list with the same length and the same sequence of identities
\* (file, line, category, matcher): none added, dropped, duplicated or
\* reordered.
C22_ReplacePreservesList ==
    [][pc = "replace" =>
          /\ Len(findings') = Len(findings)
          /\ \A k \in 1..Len(findings) :
                Identity(findings'[k]) = Identity(findings[k])]_vars

\* the second of two files has been replaced, both files having Findings
\* in the list and the Findings of both being enhanced
C22_Witness ==
    /\ Len(files) = 2
    /\ i > 2
    /\ options.enableSemanticAnalysis
    /\ \E a, b \in 1..Len(findings) :
          /\ a < b
          /\ findings[a].file = files[1].path /\ findings[a].enhanced
          /\ findings[b].file = files[2].path /\ findings[b].enhanced

\* ------------------------------------------------------------ attack chains
\* the attack chains a Correlator run emitted
AttackChainsOf(run) ==
    UNION {ToSet(run.correlations.coordinatedAttacks[c].chains) :
              c \in {c \in 1..Len(run.correlations.coordinatedAttacks) :
                        run.correlations.coordinatedAttacks[c].type = "attack_chain"}}

\* the files holding a Finding of the category among the Findings given
FilesWith(run, category) ==
    {run.given[k].file : k \in {k \in 1..Len(run.given) :
                                   run.given[k].category = category}}

\* the files are related: a dependency edge between two of them, one
\* shared directory, or one basename once the trailing suffixes are gone
RelatedFiles(F, edges) ==
    \/ \E a, b \in F : a # b /\ <<a, b>> \in edges
    \/ Cardinality({dirname(f) : f \in F}) = 1
    \/ Cardinality({StripSuffix(basename(f)) : f \in F}) = 1

\* C23: a Correlator run emits an attack_chain for a category exactly when
\* Findings of the category occur in at least two distinct files and those
\* files are related; Findings confined to one file never produce one.
C23_AttackChainIffRelatedFiles ==
    \A r \in 1..Len(runs) :
        \A category \in {runs[r].given[k].category : k \in 1..Len(runs[r].given)} :
            LET F == FilesWith(runs[r], category)
            IN  (\E chain \in AttackChainsOf(runs[r]) : chain.type = category)
                <=> (Cardinality(F) >= 2 /\ RelatedFiles(F, runs[r].edges))

\* ------------------------------------------ the dependency graph, built fresh
\* most statements of a file of the dependency-graph runs
MaxStmts == 2

\* an import of 'b', an import of 'http', an export named b, an export
\* named run, and a match
GraphLexemes == {"imp_b", "req_http", "exp_b", "exp_run", "e"}

GraphContents ==
    UNION {[1..n -> GraphLexemes] : n \in 0..MaxStmts}

GraphPaths ==
    { Path(<<"proj", "/", "app">>, <<"a", ".js">>),
      Path(<<"proj", "/", "lib">>, <<"b", ".js">>) }

Reverse(seq) ==
    [k \in 1..Len(seq) |-> seq[Len(seq) + 1 - k]]

InitGraph ==
    /\ InitRun
    /\ pc = "analyzeFiles"
    /\ options = [output |-> "json", enableSemanticAnalysis |-> FALSE,
                  enableCrossFileAnalysis |-> TRUE]
    /\ \E p1, p2 \in GraphPaths, c1, c2 \in GraphContents :
          /\ p1 # p2
          /\ target = [kind |-> "dir",
                       files |-> <<File(p1, c1, EmptyAnalysis),
                                   File(p2, c2, EmptyAnalysis)>>]
    /\ files = target.files
    /\ fileContents = target.files
    /\ findings = Flatten([k \in 1..Len(target.files) |-> DetectedIn(target.files[k])])

\* analyzeFiles on a newly constructed analyzer: first on the file list as
\* given, then on the same files in the opposite order
AnalyzeFilesFresh ==
    /\ pc = "analyzeFiles"
    /\ Len(runs) < 2
    /\ LET input == IF runs = <<>> THEN fileContents ELSE Reverse(fileContents)
           r == analyzeFiles(input, findings, NewAnalyzer)
       IN  /\ crossFileAnalyzer' = r.st
           /\ runs' = Append(runs, Run(findings, r))
           /\ events' = Append(events, Event("correlate", 0, Len(findings)))
    /\ UNCHANGED <<pc, target, options, files, fileContents, i, findings,
                   filesScanned, enhancedFindings, crossFileCorrelations, report,
                   exitCode>>

NextGraph ==
    AnalyzeFilesFresh

SpecGraph ==
    InitGraph /\ [][NextGraph]_vars

\* the file of the path among the files given
FileAt(path) ==
    CHOOSE f \in ToSet(target.files) : f.path = path

\* the import's source text names the file: one of its exported names, or
\* its basename, with or without the extension
Resolves(imp, file) ==
    \/ \E x \in ToSet(extractExports(file.content)) :
          x.name = imp.source \/ x.name = StripExt(imp.source)
    \/ imp.source = basename(file.path)
    \/ StripExt(imp.source) = StripExt(basename(file.path))

\* C24: the dependency graph has an edge F -> G, F # G, only if some import
\* of F has a source text that resolves to G; G is never made a dependency
\* of F by properties of G alone.
C24_EdgeOnlyByImportSource ==
    \A r \in 1..Len(runs) : \A edge \in runs[r].edges :
        /\ edge[1] # edge[2]
        /\ \E imp \in ToSet(extractImports(FileAt(edge[1]).content)) :
              Resolves(imp, FileAt(edge[2]))

\* C25: a fresh Correlator given the same files in another order, with the
\* same Findings, computes the same dependency edges and the same
\* correlation records.
C25_OrderIndependent ==
    \A a, b \in 1..Len(runs) :
        /\ runs[a].edges = runs[b].edges
        /\ CorrelationRecords(runs[a].correlations)
               = CorrelationRecords(runs[b].correlations)

\* ------------------------------------------------------- config injection
\* two code files and a configuration file
ConfigPaths ==
    << Path(<<"proj", "/", "app">>, <<"a", ".js">>),
       Path(<<"proj", "/", "lib">>, <<"b", ".js">>),
       Path(<<"proj">>, <<"config", ".js">>) >>

\* no match, a match without a config reference, a dump of process.env,
\* and both
ConfigContents ==
    { <<"x">>, <<"e">>, <<"envdump">>, <<"e", NL, "envdump">> }

InitConfig ==
    /\ InitRun
    /\ pc = "analyzeFiles"
    /\ options = [output |-> "json", enableSemanticAnalysis |-> FALSE,
                  enableCrossFileAnalysis |-> TRUE]
    /\ \E contents \in [1..Len(ConfigPaths) -> ConfigContents] :
          target = [kind |-> "dir",
                    files |-> [k \in 1..Len(ConfigPaths) |->
                                  File(ConfigPaths[k], contents[k], EmptyAnalysis)]]
    /\ files = target.files
    /\ fileContents = target.files
    /\ findings = Flatten([k \in 1..Len(target.files) |-> DetectedIn(target.files[k])])

SpecConfig ==
    InitConfig /\ [][NextCorr]_vars

\* the Finding's evidence references a config path
ReferencesConfig(f) ==
    EvidenceWords(f.evidence) \cap {"config", ".env", "settings"} # {}

\* C26: for every non-config file with a Finding whose evidence references
\* a config path the Correlator emits a config-injection record with that
\* file as its source, besides one record per config file with Findings.
C26_EveryConfigInjectionFlagged ==
    \A r \in 1..Len(runs) :
        LET run == runs[r]
            records == ToSet(run.correlations.configCodeInjection)
            given == ToSet(run.given)
            sources == {f.file : f \in {f \in given : /\ ~isConfigFile(f.file)
                                                       /\ ReferencesConfig(f)}}
            configs == {f.file : f \in {f \in given : isConfigFile(f.file)}}
        IN  /\ \A F \in sources : \E rec \in records : rec.sourceFile = F
            /\ \A F \in configs : \E rec \in records : rec.configFile = F

\* ------------------------------------------- two scanFile calls interleaved
\* Two calls of scanFile on one Scanner, neither awaited before the other
\* starts. A call runs without interruption up to its await of analyzeFile
\* and again from there to its end; pc and enhancedFindings hold one entry
\* per call.
ParPaths ==
    << Path(<<"proj">>, <<"payload", "1", ".js">>),
       Path(<<"proj", "/", "lib">>, <<"init", ".js">>) >>

ParContents ==
    { <<"x">>, <<"e">>, <<"e", NL, "e">>, <<"atob", "atob", "atob", "atob">> }

ParAnalyses ==
    { EmptyAnalysis, HandlerAnalysis, ParseFailure }

InitPar ==
    /\ i = 1
    /\ filesScanned = 0
    /\ crossFileCorrelations = <<>>
    /\ crossFileAnalyzer = NewAnalyzer
    /\ events = <<>>
    /\ runs = <<>>
    /\ report = NoReport
    /\ exitCode = -1
    /\ findings = <<>>
    /\ fileContents = <<>>
    /\ options \in [output : {"json"}, enableSemanticAnalysis : BOOLEAN,
                     enableCrossFileAnalysis : {TRUE}]
    /\ \E contents \in [1..2 -> ParContents], asts \in [1..2 -> ParAnalyses] :
          target = [kind |-> "dir",
                    files |-> [t \in 1..2 |->
                                  File(ParPaths[t], contents[t], asts[t])]]
    /\ files = target.files
    /\ pc = [t \in 1..2 |-> "scanFile"]
    /\ enhancedFindings = [t \in 1..2 |-> <<>>]

\* scanFile of call t, from its start to its await or its return
ParDetect(t) ==
    /\ pc[t] = "scanFile"
    /\ LET file == files[t]
           found == MatchLoop(file.path, file.content)
                    \o MultiThreatFindings(file.path, file.content)
           all == findings \o found
           fileFindings == SelectSeq(all, LAMBDA f : f.file = file.path)
       IN  IF ContentLength(file) > MaxFileSize \/ ~file.readable
           THEN /\ pc' = [pc EXCEPT ![t] = "returned"]
                /\ UNCHANGED <<findings, filesScanned, enhancedFindings>>
           ELSE IF isMostlyDocumentation(file)
           THEN /\ pc' = [pc EXCEPT ![t] = "returned"]
                /\ filesScanned' = filesScanned + 1
                /\ UNCHANGED <<findings, enhancedFindings>>
           ELSE /\ filesScanned' = filesScanned + 1
                /\ findings' = all
                /\ IF options.enableSemanticAnalysis
                   THEN /\ enhancedFindings' =
                              [enhancedFindings EXCEPT
                                  ![t] = analyzeFile(file, fileFindings)]
                        /\ pc' = [pc EXCEPT ![t] = "replace"]
                   ELSE /\ pc' = [pc EXCEPT ![t] = "returned"]
                        /\ UNCHANGED enhancedFindings
    /\ UNCHANGED <<target, options, files, fileContents, i, crossFileCorrelations,
                   crossFileAnalyzer, events, runs, report, exitCode>>

\* the replacement overwriting the tail of the list
ParReplaceTail(t) ==
    /\ pc[t] = "replace"
    /\ findings' = SubSeq(findings, 1, Len(findings) - Len(enhancedFindings[t]))
                    \o enhancedFindings[t]
    /\ enhancedFindings' = [enhancedFindings EXCEPT ![t] = <<>>]
    /\ pc' = [pc EXCEPT ![t] = "returned"]
    /\ UNCHANGED <<target, options, files, fileContents, i, filesScanned,
                   crossFileCorrelations, crossFileAnalyzer, events, runs, report,
                   exitCode>>

\* scanFile of call t, from its await to its end
ParReplace(t) ==
    /\ pc[t] = "replace"
    /\ findings' = SelectSeq(findings, LAMBDA f : f.file # files[t].path)
                    \o enhancedFindings[t]
    /\ enhancedFindings' = [enhancedFindings EXCEPT ![t] = <<>>]
    /\ pc' = [pc EXCEPT ![t] = "returned"]
    /\ UNCHANGED <<target, options, files, fileContents, i, filesScanned,
                   crossFileCorrelations, crossFileAnalyzer, events, runs, report,
                   exitCode>>

NextPar ==
    \E t \in 1..2 : ParDetect(t) \/ ParReplace(t)

SpecPar ==
    InitPar /\ [][NextPar]_vars

\* the Findings of the file, in the order of the list
FindingsOf(fs, path) ==
    SelectSeq(fs, LAMBDA f : f.file = path)

\* what one scanFile call alone leaves for the file
ScannedAlone(file) ==
    IF options.enableSemanticAnalysis /\ IsScanned(file)
    THEN analyzeFile(file, DetectedIn(file))
    ELSE DetectedIn(file)

\* C27: in every interleaving of two scanFile calls for distinct files, a
\* step of one call, its detection or the replacement after its await,
\* leaves the other file's Findings as they were, and once both calls
\* have returned each file has the Findings its call alone produces.
C27_OtherFilesUntouched ==
    /\ [][\A t \in 1..2 : pc'[t] # pc[t] =>
              \A g \in (1..2) \ {t} :
                  FindingsOf(findings', files[g].path)
                      = FindingsOf(findings, files[g].path)]_vars
    /\ []((\A t \in 1..2 : pc[t] = "returned") =>
              \A t \in 1..2 :
                  FindingsOf(findings, files[t].path) = ScannedAlone(files[t]))

\* the first call has replaced its Findings while the second, which
\* detected its own during the first call's await, still waits
C27_Witness ==
    /\ pc = <<"returned", "replace">>
    /\ \E a, b \in 1..Len(findings) :
          /\ a < b
          /\ findings[a].file = files[2].path /\ ~findings[a].enhanced
          /\ findings[b].file = files[1].path /\ findings[b].enhanced

\* -------------------------------------------------- the Enhancer's frame
\* the fields of a Finding the Enhancer is not to touch
Frame(f) ==
    [file |-> f.file, line |-> f.line, category |-> f.category,
     evidence |-> f.evidence, severity |-> f.severity,
     threatScore |-> f.threatScore, contextScore |-> f.contextScore]

\* what detection alone reports for the files of the target
Baseline ==
    Flatten([k \in 1..Len(target.files) |-> DetectedIn(target.files[k])])

\* C28: the Enhancer leaves file, line, category, evidence, severity,
\* threatScore and contextScore of every Finding unchanged, so riskScore,
\* verdict and exit status are those of the Findings before enhancement,
\* whether or not enhancement runs.
C28_EnhancerFrame ==
    /\ [][pc = "replace" =>
              /\ Len(findings') = Len(findings)
              /\ \A k \in 1..Len(findings) :
                    Frame(findings'[k]) = Frame(findings[k])]_vars
    /\ [](pc = "exited" /\ target.kind # "missing" =>
              /\ report.riskScore = calculateRiskScore(Baseline)
              /\ report.format = "json" =>
                    report.verdict = Verdict(calculateRiskScore(Baseline))
              /\ exitCode = ExitStatus(Baseline))

\* a finished scan with an enhanced critical Finding whose adjusted
\* severity is lower, reported and exited on as critical
C28_Witness ==
    /\ pc = "exited"
    /\ exitCode = 2
    /\ report.riskScore = 100
    /\ \E k \in EnhancedFindings :
          /\ findings[k].severity = "critical"
          /\ findings[k].adjustedSeverity \in {"low", "medium"}

\* ------------------------------------------- verdict against exit status
\* C29: for every final Finding set, a verdict of DO NOT INSTALL comes with
\* a non-zero exit status, and an exit status of 0 with the verdict SAFE.
C29_VerdictAgreesWithExit ==
    pc = "exited" /\ report.format = "json" =>
        /\ report.verdict = "DO NOT INSTALL" => exitCode # 0
        /\ exitCode = 0 => report.verdict = "SAFE"

\* ------------------------------------------------ the provisional severity
\* the declared severity of the category of the name
BaseSeverity(name) ==
    LET c == CHOOSE c \in ToSet(ALL_PATTERNS) : c.name = name
    IN  c.severity

\* C30: the severity of a per-match Finding is never lower than the
\* declared severity of its category and, for a fixed base severity, never
\* decreases as threatScore grows: no lower score, at any hundredth, gets
\* a higher severity than the Finding's.
C30_ProvisionalSeverity ==
    \A k \in MatcherFindings :
        LET f == findings[k]
            base == BaseSeverity(f.category)
        IN  /\ SeverityRank(f.severity) >= SeverityRank(base)
            /\ \A h \in 0..MaxScoreHundredths :
                  AtLeast(f.threatScore, h) =>
                      SeverityRank(adjustSeverity(base, Rat(h, 100)))
                          <= SeverityRank(f.severity)

====
